---- MODULE Spec2Model ----
(***************************************************************************)
(* A model of the PGPTimes scraper (src/scraper).                          *)
(*                                                                         *)
(* Text is modelled as a sequence of one-character strings, so that the    *)
(* normalisations and parsers of the source are computed, not assumed.     *)
(* A Python Optional is modelled as a sequence of length 0 (None) or 1.    *)
(* A Python dict is modelled as a sequence of <<key, value>> pairs with    *)
(* distinct keys, in insertion order.  Lap times are thousandths of a      *)
(* second.                                                                 *)
(***************************************************************************)
EXTENDS Integers, Sequences, FiniteSets, TLC

VARIABLES
    \* ---- identity matching of scrape_all_laps.main (lines 468-490)
    m_in,        \* the inputs: driver_name, disp_name, racer_laps
    m_out,       \* <<"idle">> before the selection, <<"laps", Optional laps>> after
    \* ---- parse_laps_by_racer_any
    a_html,      \* the page: the output of each of the four strategies on it
    a_out,       \* <<"idle">> before the call, <<"ret", dict>> after
    \* ---- scrape_all_laps.main
    pc,          \* position in main: "driver", "heat", "variant", "select", "done"
    drv,         \* index of the current (driver_name, driver_id) in drivers
    heat_nos,    \* heats linked on the current driver's history page
    heat_date_map, \* heat -> datetime, from the history page
    idx,         \* index of the current heat in heat_nos
    site,        \* what the site answers for the three variant URLs of the heat in progress
    vi,          \* index of the next variant to try
    best,        \* the best variant so far
    out_csv,     \* rows appended to data/all_laps.csv after the header
    log_msg,     \* the last message main printed (the [debug] ones as with DEBUG=1)
    \* ---- parse.parse_heat_details_html
    p_html,      \* the page
    p_out,       \* <<"idle">> before the call, <<"ret", [exc, heat_no, ..., drivers]>> after
    \* ---- run.scrape_heat
    h_in,        \* heat_no, the site's answers (web) and config.EXCLUDE_HEAT_TYPES
    h_out,       \* <<"idle">> before the call, <<"ret", [exc, ret, fetched]>> after
    \* ---- run.main
    r_site,      \* what the site answers for each heat number
    r_pc,        \* "idle" before the first run, "loop", "rebuild", "done", or "raised"
                 \* when the process died of an exception
    r_runs,      \* runs started so far
    r_args,      \* sys.argv[1:] of the run
    cur,         \* the heat number to scrape next
    end,         \* the bound of a bounded run, None in continuous mode
    consecutive_misses,
    processed,
    heats_dir,   \* data/heats
    last_heat_file, \* data/last_heat.txt
    index_files, \* data/driver_index.json and data/summary.json, None before the first rebuild
    r_clock,     \* datetime.now of the latest rebuild
    r_log,       \* the heats this run asked the site for, in order, each as
                 \* <<heat number, "saved" | "miss" | "raised">>
    \* ---- scrape.aggregate_best_across_heats
    g_site,      \* what the site answers for each heat of heat_nos
    allowed_names_lower, \* the driver filter, None without one
    g_pc,        \* "idle" before the call, "loop", "done" after the return
    g_idx,       \* the heats taken from heat_nos so far
    leaderboard, \* name -> entry
    g_out,        \* the dict returned, None before the return
    \* ---- scrape_all_laps.parse_laps_text_block
    t_in,        \* the page: the lines of its text before the racer blocks, and the blocks
    t_out,        \* <<"idle">> before the call, <<"ret", dict>> after
    \* ---- parse._parse_time_to_seconds
    d_text,      \* the text handed to the function
    d_out        \* <<"idle">> before the call, <<"ret", value>> after

matchVars == <<m_in, m_out>>

anyVars == <<a_html, a_out>>

lapsVars == <<pc, drv, heat_nos, heat_date_map, idx, site, vi, best, out_csv, log_msg>>

parseVars == <<p_html, p_out>>

heatVars == <<h_in, h_out>>

vars == <<m_in, m_out, a_html, a_out,
          pc, drv, heat_nos, heat_date_map, idx, site, vi, best, out_csv, log_msg,
          p_html, p_out, h_in, h_out,
          r_site, r_pc, r_runs, r_args, cur, end, consecutive_misses, processed,
          heats_dir, last_heat_file, index_files, r_clock, r_log,
          g_site, allowed_names_lower, g_pc, g_idx, leaderboard, g_out,
          t_in, t_out,
          d_text, d_out>>

runVars == <<r_site, r_pc, r_runs, r_args, cur, end, consecutive_misses, processed,
             heats_dir, last_heat_file, index_files, r_clock, r_log>>

boardVars == <<g_site, allowed_names_lower, g_pc, g_idx, leaderboard, g_out>>

textVars == <<t_in, t_out>>

durVars == <<d_text, d_out>>

notMatchVars == <<anyVars, lapsVars, parseVars, heatVars, runVars, boardVars, textVars, durVars>>

notAnyVars == <<matchVars, lapsVars, parseVars, heatVars, runVars, boardVars, textVars, durVars>>

notLapsVars == <<matchVars, anyVars, parseVars, heatVars, runVars, boardVars, textVars, durVars>>

notParseVars == <<matchVars, anyVars, lapsVars, heatVars, runVars, boardVars, textVars, durVars>>

notHeatVars == <<matchVars, anyVars, lapsVars, parseVars, runVars, boardVars, textVars, durVars>>

notRunVars == <<matchVars, anyVars, lapsVars, parseVars, heatVars, boardVars, textVars, durVars>>

notBoardVars == <<matchVars, anyVars, lapsVars, parseVars, heatVars, runVars, textVars, durVars>>

notTextVars == <<matchVars, anyVars, lapsVars, parseVars, heatVars, runVars, boardVars, durVars>>

notDurVars == <<matchVars, anyVars, lapsVars, parseVars, heatVars, runVars, boardVars, textVars>>

-----------------------------------------------------------------------------
(* Optional values *)

NoneV == <<>>

Some(x) == <<x>>

IsNone(o) == o = <<>>

\* the first value of a sequence of optionals that is not None
FirstSome(opts) ==
    IF \E i \in 1..Len(opts) : ~IsNone(opts[i])
    THEN opts[CHOOSE i \in 1..Len(opts) :
                 ~IsNone(opts[i]) /\ \A j \in 1..(i - 1) : IsNone(opts[j])]
    ELSE NoneV

-----------------------------------------------------------------------------
(* Text: str.split, str.join, str.strip, str.casefold, str.startswith, in *)

Whitespace == {" ", "\t", "\n"}

UpperCase == <<"A","B","C","D","E","F","G","H","I","J","K","L","M",
               "N","O","P","Q","R","S","T","U","V","W","X","Y","Z">>

LowerCase == <<"a","b","c","d","e","f","g","h","i","j","k","l","m",
               "n","o","p","q","r","s","t","u","v","w","x","y","z">>

\* str.casefold / str.lower on one (ASCII) character
FoldChar(c) ==
    IF \E i \in 1..Len(UpperCase) : UpperCase[i] = c
    THEN LowerCase[CHOOSE i \in 1..Len(UpperCase) : UpperCase[i] = c]
    ELSE c

casefold(s) == [i \in 1..Len(s) |-> FoldChar(s[i])]

RECURSIVE LStrip(_)
LStrip(s) ==
    IF s # <<>> /\ Head(s) \in Whitespace THEN LStrip(Tail(s)) ELSE s

RECURSIVE RStrip(_)
RStrip(s) ==
    IF s # <<>> /\ s[Len(s)] \in Whitespace
    THEN RStrip(SubSeq(s, 1, Len(s) - 1)) ELSE s

strip(s) == RStrip(LStrip(s))

\* str.split(): the maximal runs of non-whitespace characters, in order
RECURSIVE SplitFrom(_, _, _)
SplitFrom(s, word, acc) ==
    IF s = <<>>
    THEN IF word = <<>> THEN acc ELSE Append(acc, word)
    ELSE IF Head(s) \in Whitespace
         THEN SplitFrom(Tail(s), <<>>, IF word = <<>> THEN acc ELSE Append(acc, word))
         ELSE SplitFrom(Tail(s), Append(word, Head(s)), acc)

split(s) == SplitFrom(s, <<>>, <<>>)

\* " ".join(tokens)
RECURSIVE JoinSpace(_)
JoinSpace(toks) ==
    IF toks = <<>> THEN <<>>
    ELSE IF Len(toks) = 1 THEN toks[1]
    ELSE toks[1] \o <<" ">> \o JoinSpace(Tail(toks))

startswith(s, p) == Len(p) <= Len(s) /\ SubSeq(s, 1, Len(p)) = p

\* sub in s
contains(s, sub) ==
    \E i \in 0..(Len(s) - Len(sub)) : SubSeq(s, i + 1, i + Len(sub)) = sub

\* norm(s): " ".join((s or "").split()).casefold()
norm(s) == casefold(JoinSpace(split(s)))

-----------------------------------------------------------------------------
(* dict helpers *)

Keys(d) == [i \in 1..Len(d) |-> d[i][1]]

HasKey(d, k) == \E i \in 1..Len(d) : d[i][1] = k

Get(d, k) == d[CHOOSE i \in 1..Len(d) : d[i][1] = k][2]

\* dict[k] = v: the value is replaced in place, a new key goes last
DictPut(d, k, v) ==
    IF HasKey(d, k)
    THEN [i \in 1..Len(d) |-> IF d[i][1] = k THEN <<k, v>> ELSE d[i]]
    ELSE Append(d, <<k, v>>)

-----------------------------------------------------------------------------
(* scrape_all_laps.main, lines 472-490: pick laps for this driver *)

\* for k in list(racer_laps.keys()): if norm(k) == disp_norm: laps = racer_laps[k]; break
RECURSIVE FirstNormEqual(_, _, _)
FirstNormEqual(racer_laps, disp_norm, i) ==
    IF i > Len(racer_laps) THEN NoneV
    ELSE IF norm(racer_laps[i][1]) = disp_norm THEN Some(racer_laps[i][2])
    ELSE FirstNormEqual(racer_laps, disp_norm, i + 1)

\* for k in ...: if norm(k).startswith(norm(disp_name)) or norm(disp_name).startswith(norm(k))
RECURSIVE FirstPrefix(_, _, _)
FirstPrefix(racer_laps, disp_name, i) ==
    IF i > Len(racer_laps) THEN NoneV
    ELSE IF \/ startswith(norm(racer_laps[i][1]), norm(disp_name))
            \/ startswith(norm(disp_name), norm(racer_laps[i][1]))
         THEN Some(racer_laps[i][2])
    ELSE FirstPrefix(racer_laps, disp_name, i + 1)

\* last = (driver_name.strip().split()[-1] if driver_name.strip() else "").casefold()
Surname(driver_name) ==
    IF strip(driver_name) # <<>>
    THEN casefold(split(strip(driver_name))[Len(split(strip(driver_name)))])
    ELSE <<>>

\* for k in ...: if last and last in norm(k)
RECURSIVE FirstSurname(_, _, _)
FirstSurname(racer_laps, last, i) ==
    IF i > Len(racer_laps) THEN NoneV
    ELSE IF last # <<>> /\ contains(norm(racer_laps[i][1]), last)
         THEN Some(racer_laps[i][2])
    ELSE FirstSurname(racer_laps, last, i + 1)

\* a plausible slip: the prefix tier is tried before the exact tier
SelectLapsPrefixFirst(driver_name, disp_name, racer_laps) ==
    LET t3 == FirstPrefix(racer_laps, disp_name, 1)
        t1 == IF ~IsNone(t3) THEN t3
              ELSE IF HasKey(racer_laps, disp_name)
                   THEN Some(Get(racer_laps, disp_name)) ELSE NoneV
        t2 == IF IsNone(t1) THEN FirstNormEqual(racer_laps, norm(disp_name), 1) ELSE t1
    IN  IF IsNone(t2) /\ racer_laps # <<>>
        THEN FirstSurname(racer_laps, Surname(driver_name), 1)
        ELSE t2

\* a plausible slip: when no tier matches, the first racer of the page is taken
SelectLapsOrFirst(driver_name, disp_name, racer_laps) ==
    LET t1 == IF HasKey(racer_laps, disp_name)
              THEN Some(Get(racer_laps, disp_name)) ELSE NoneV
        t2 == IF IsNone(t1) THEN FirstNormEqual(racer_laps, norm(disp_name), 1) ELSE t1
        t3 == IF IsNone(t2) THEN FirstPrefix(racer_laps, disp_name, 1) ELSE t2
        t4 == IF IsNone(t3) /\ racer_laps # <<>>
              THEN FirstSurname(racer_laps, Surname(driver_name), 1)
              ELSE t3
    IN  IF IsNone(t4) /\ racer_laps # <<>> THEN Some(racer_laps[1][2]) ELSE t4

\* laps = None; the four "if laps is None" tiers in order
SelectLaps(driver_name, disp_name, racer_laps) ==
    LET t1 == IF HasKey(racer_laps, disp_name)
              THEN Some(Get(racer_laps, disp_name)) ELSE NoneV
        t2 == IF IsNone(t1) THEN FirstNormEqual(racer_laps, norm(disp_name), 1) ELSE t1
        t3 == IF IsNone(t2) THEN FirstPrefix(racer_laps, disp_name, 1) ELSE t2
    IN  IF IsNone(t3) /\ racer_laps # <<>>
        THEN FirstSurname(racer_laps, Surname(driver_name), 1)
        ELSE t3

-----------------------------------------------------------------------------
(* Inputs of the identity matching *)

MaxKeys == 2

N_AlB    == <<"A","l"," ","B">>
N_alb2   == <<"a","l"," "," ","b">>
N_ALB    == <<"A","L"," ","B">>
N_Al     == <<"A","l">>
N_AlBo   == <<"A","l"," ","B","o">>
N_CyB    == <<"C","y"," ","B">>
N_Di     == <<"D","i">>

\* names as they may be rendered on a heat page
KeyPool == <<N_AlB, N_alb2, N_ALB, N_Al, N_AlBo, N_CyB, N_Di>>

\* the roster's name of the driver; the display name of the driver on the page
RosterNames == {N_AlB, N_Di}

DispNames == {N_AlB, N_alb2, N_Al}

\* the laps listed under the i-th name of KeyPool: one lap, whose time tells the names apart
LapsOf(i) == << <<1, 80000 + i>> >>

\* the dicts of at most n distinct names of KeyPool, in every insertion order
RECURSIVE KeySeqs(_)
KeySeqs(n) ==
    IF n = 0 THEN {<<>>}
    ELSE KeySeqs(n - 1) \cup
         {Append(q, i) : q \in {r \in KeySeqs(n - 1) : Len(r) = n - 1},
                         i \in 1..Len(KeyPool)}

DistinctSeq(q) == \A i, j \in 1..Len(q) : i # j => q[i] # q[j]

DictOf(q) == [i \in 1..Len(q) |-> <<KeyPool[q[i]], LapsOf(q[i])>>]

MatchDicts == {DictOf(q) : q \in {r \in KeySeqs(MaxKeys) : DistinctSeq(r)}}

MatchInit ==
    /\ m_in \in [driver_name : RosterNames, disp_name : DispNames, racer_laps : MatchDicts]
    /\ m_out = <<"idle">>

\* lines 472-490 applied to the inputs
Select ==
    /\ m_out = <<"idle">>
    /\ m_out' = <<"laps", SelectLaps(m_in.driver_name, m_in.disp_name, m_in.racer_laps)>>
    /\ UNCHANGED <<m_in, notMatchVars>>

MatchIdle == m_in = <<>> /\ m_out = <<"off">>

-----------------------------------------------------------------------------
(* scrape_all_laps.parse_laps_by_racer_any, lines 356-373 *)

\* grouped.setdefault(name, []).append((lap_no, lap_sec)) for one row
GroupAdd(grouped, row) ==
    IF HasKey(grouped, row[1])
    THEN [i \in 1..Len(grouped) |->
            IF grouped[i][1] = row[1]
            THEN <<grouped[i][1], Append(grouped[i][2], <<row[2], row[3]>>)>>
            ELSE grouped[i]]
    ELSE Append(grouped, <<row[1], << <<row[2], row[3]>> >> >>)

\* for name, lap_no, lap_sec in rows: ...
RECURSIVE GroupRows(_, _)
GroupRows(rows, grouped) ==
    IF rows = <<>> THEN grouped
    ELSE GroupRows(Tail(rows), GroupAdd(grouped, Head(rows)))

\* dict.update-like merge of two dicts, for the slip below
RECURSIVE MergeDicts(_, _)
MergeDicts(d, e) ==
    IF e = <<>> THEN d
    ELSE MergeDicts(IF HasKey(d, e[1][1]) THEN d ELSE Append(d, e[1]), Tail(e))

\* a plausible slip: the DOM tables' racers are added to the text block's
parse_laps_by_racer_any_merged(html) ==
    IF html.text # <<>> THEN MergeDicts(html.text, html.dom)
    ELSE IF html.dom # <<>> THEN html.dom
    ELSE IF html.pre # <<>> THEN html.pre
    ELSE GroupRows(html.glob, <<>>)

\* html is the page as the four parsers see it: html.text, html.dom and html.pre
\* are the dicts returned by parse_laps_text_block, parse_laps_dom_tables and
\* parse_laps_pre_text, html.glob the rows returned by parse_global_lap_table
parse_laps_by_racer_any(html) ==
    IF html.text # <<>> THEN html.text
    ELSE IF html.dom # <<>> THEN html.dom
    ELSE IF html.pre # <<>> THEN html.pre
    ELSE GroupRows(html.glob, <<>>)

Laps1(t) == << <<1, t>> >>

Laps2(t, u) == << <<1, t>>, <<2, u>> >>

TextOuts == {<<>>, << <<N_AlB, Laps2(85111, 84220)>>, <<N_Di, Laps1(90000)>> >>,
                   << <<N_Al, Laps1(70001)>> >>}

DomOuts == {<<>>, << <<N_AlB, Laps1(81002)>> >>,
                  << <<N_CyB, Laps1(82002)>>, <<N_AlB, Laps1(83002)>> >>}

PreOuts == {<<>>, << <<N_Di, Laps1(71003)>> >>,
                  << <<N_AlB, Laps1(72003)>>, <<N_Al, Laps1(73003)>> >>}

GlobOuts == {<<>>, << <<N_AlB, 1, 91004>>, <<N_Di, 1, 92004>>, <<N_AlB, 2, 93004>> >>,
                   << <<N_CyB, 3, 94004>> >>}

AnyInit ==
    /\ a_html \in [text : TextOuts, dom : DomOuts, pre : PreOuts, glob : GlobOuts]
    /\ a_out = <<"idle">>

ParseAny ==
    /\ a_out = <<"idle">>
    /\ a_out' = <<"ret", parse_laps_by_racer_any(a_html)>>
    /\ UNCHANGED <<a_html, notAnyVars>>

AnyIdle == a_html = <<>> /\ a_out = <<"off">>

-----------------------------------------------------------------------------
(* scrape_all_laps.main, lines 392-510 *)

START_YEAR == 2025

\* read_drivers_csv: (driver_name, driver_id) per line
drivers == << <<N_AlB, "1001">>, <<N_Di, "1002">> >>

\* the outcome of fetch(): an exception, or the page
Fail == [exc |-> TRUE]

\* heat pages: the four lap parsers' outputs on the page, the CustID -> name
\* links of the page (map_custid_to_name_in_heat) and the date found in its
\* text (heat_datetime_from_html); a datetime is modelled by its year
PgNone == [text |-> <<>>, dom |-> <<>>, pre |-> <<>>, glob |-> <<>>,
           names |-> <<>>, dt |-> Some([year |-> 2025])]

PgText == [text |-> << <<N_AlB, Laps2(85111, 84220)>>, <<N_Di, Laps1(90000)>> >>,
           dom |-> << <<N_CyB, Laps1(82002)>> >>, pre |-> <<>>, glob |-> <<>>,
           names |-> <<>>, dt |-> Some([year |-> 2025])]

PgDom  == [text |-> <<>>, dom |-> << <<N_Al, Laps1(81002)>>, <<N_CyB, Laps1(82002)>> >>,
           pre |-> <<>>, glob |-> <<>>,
           names |-> << <<"1001", N_Al>> >>, dt |-> NoneV]

PgGlob == [text |-> <<>>, dom |-> <<>>, pre |-> <<>>,
           glob |-> << <<N_CyB, 3, 94004>> >>,
           names |-> <<>>, dt |-> Some([year |-> 2024])]

PgPre  == [text |-> <<>>, dom |-> <<>>,
           pre |-> << <<N_alb2, Laps1(72003)>>, <<N_AlBo, Laps1(73003)>>, <<N_CyB, Laps1(74003)>> >>,
           glob |-> <<>>, names |-> <<>>, dt |-> NoneV]

HeatPages == {PgNone, PgText, PgDom, PgGlob, PgPre}

\* variants = [(HEAT_DETAILS_URL, "default"), (..SHOW, "show"), (..PRINT_URL, "print")]
variants == <<"default", "show", "print">>

Sites == [1..Len(variants) -> HeatPages \cup {Fail}]

\* history pages: the heats linked (extract_heatnos_from_history) and the
\* dates found beside them (map_heat_dates_from_history)
Histories ==
    { [heat_nos |-> <<"82271", "82272">>, dates |-> << <<"82271", [year |-> 2025]>> >>],
      [heat_nos |-> <<"82272">>, dates |-> << <<"82272", [year |-> 2024]>> >>],
      [heat_nos |-> <<"82272", "82271">>, dates |-> <<>>] }

\* dict.get(key), None when absent
GetOpt(d, k) == IF HasKey(d, k) THEN Some(Get(d, k)) ELSE NoneV

\* dict.get(key, default)
GetOr(d, k, default) == IF HasKey(d, k) THEN Get(d, k) ELSE default

\* best = {"variant": None, "html": None, "racer_laps": {}, "keys": -1}
BestInit == [variant |-> NoneV, html |-> NoneV, racer_laps |-> <<>>, keys |-> -1]

\* a plausible slip: ">=" for ">", so that on a tie the later variant is kept
BetterKeysOrEqual(num_keys, b) == num_keys >= b.keys

\* if num_keys > best["keys"]
BetterKeys(num_keys, b) == num_keys > b.keys

\* one iteration of "for url, tag in variants" on a fetched page, lines 445-450
KeepBest(b, tag, html) ==
    LET laps_by_racer == parse_laps_by_racer_any(html)
        num_keys == Len(laps_by_racer)
    IN  IF BetterKeys(num_keys, b)
        THEN [variant |-> Some(tag), html |-> Some(html),
              racer_laps |-> laps_by_racer, keys |-> num_keys]
        ELSE b

\* for lap_num, lap_sec in laps: wa.writerow([disp_name, driver_id, heat, iso, lap_num, lap_sec])
RowsOf(disp_name, driver_id, heat, iso, laps) ==
    [i \in 1..Len(laps) |-> <<disp_name, driver_id, heat, iso, laps[i][1], laps[i][2]>>]

cur_driver_name == drivers[drv][1]

cur_driver_id == drivers[drv][2]

cur_heat == heat_nos[idx]

cur_hist_dt == GetOpt(heat_date_map, cur_heat)

\* cur_heat_dt = page_dt or cur_hist_dt, for the page kept in best
cur_heat_dt == IF ~IsNone(best.html[1].dt) THEN best.html[1].dt ELSE cur_hist_dt

cur_disp_name == GetOr(best.html[1].names, cur_driver_id, cur_driver_name)

TooOld(d) == ~IsNone(d) /\ d[1].year < START_YEAR

LapsInit ==
    /\ pc = "driver" /\ drv = 1
    /\ heat_nos = <<>> /\ heat_date_map = <<>> /\ idx = 1
    /\ site = <<>> /\ vi = 1 /\ best = BestInit
    /\ out_csv = <<>> /\ log_msg = "start"

\* the driver loop is over: print "[info] Wrote ..."
FinishRun ==
    /\ pc = "driver" /\ drv > Len(drivers)
    /\ pc' = "done" /\ log_msg' = "wrote"
    /\ UNCHANGED <<drv, heat_nos, heat_date_map, idx, site, vi, best, out_csv>>
    /\ UNCHANGED notLapsVars

\* lines 406-410: the history fetch raises; warn and continue with the next driver
HistoryFails ==
    /\ pc = "driver" /\ drv <= Len(drivers)
    /\ drv' = drv + 1 /\ log_msg' = "history_fetch_failed"
    /\ UNCHANGED <<pc, heat_nos, heat_date_map, idx, site, vi, best, out_csv>>
    /\ UNCHANGED notLapsVars

\* lines 406-414: the history page is fetched and read
HistoryFetched ==
    /\ pc = "driver" /\ drv <= Len(drivers)
    /\ \E h \in Histories : heat_nos' = h.heat_nos /\ heat_date_map' = h.dates
    /\ idx' = 1 /\ pc' = "heat" /\ log_msg' = "found_heats"
    /\ UNCHANGED <<drv, site, vi, best, out_csv>>
    /\ UNCHANGED notLapsVars

\* the heat loop of this driver is over
EndHeats ==
    /\ pc = "heat" /\ idx > Len(heat_nos)
    /\ drv' = drv + 1 /\ pc' = "driver" /\ log_msg' = "heats_done"
    /\ UNCHANGED <<heat_nos, heat_date_map, idx, site, vi, best, out_csv>>
    /\ UNCHANGED notLapsVars

\* lines 420-424: early year filter on the history date
SkipByHistory ==
    /\ pc = "heat" /\ idx <= Len(heat_nos)
    /\ TooOld(cur_hist_dt)
    /\ idx' = idx + 1 /\ log_msg' = "skip_from_history"
    /\ UNCHANGED <<pc, drv, heat_nos, heat_date_map, site, vi, best, out_csv>>
    /\ UNCHANGED notLapsVars

\* lines 426-431: the variants are set up; the site's answers are fixed here
BeginVariants ==
    /\ pc = "heat" /\ idx <= Len(heat_nos)
    /\ ~TooOld(cur_hist_dt)
    /\ site' \in Sites
    /\ vi' = 1 /\ best' = BestInit /\ pc' = "variant" /\ log_msg' = "variants"
    /\ UNCHANGED <<drv, heat_nos, heat_date_map, idx, out_csv>>
    /\ UNCHANGED notLapsVars

\* lines 433-450: one iteration of the variant loop
TryVariant ==
    /\ pc = "variant"
    /\ IF site[vi] = Fail
       THEN best' = best /\ log_msg' = "fetch_failed"
       ELSE best' = KeepBest(best, variants[vi], site[vi]) /\ log_msg' = "variant_parsed"
    /\ IF vi = Len(variants) THEN pc' = "select" /\ vi' = vi
                             ELSE pc' = pc /\ vi' = vi + 1
    /\ UNCHANGED <<drv, heat_nos, heat_date_map, idx, site, out_csv>>
    /\ UNCHANGED notLapsVars

\* the page text is tested as "not best['html']": only a page was kept or not
HtmlFalsy(b) == IsNone(b.html)

\* lines 452-455
NoUsableVariant ==
    /\ pc = "select"
    /\ HtmlFalsy(best) \/ best.keys <= 0
    /\ idx' = idx + 1 /\ pc' = "heat" /\ site' = <<>> /\ log_msg' = "no_usable_variant"
    /\ UNCHANGED <<drv, heat_nos, heat_date_map, vi, best, out_csv>>
    /\ UNCHANGED notLapsVars

\* lines 460-466
SkipByPageDate ==
    /\ pc = "select"
    /\ ~(HtmlFalsy(best) \/ best.keys <= 0)
    /\ TooOld(cur_heat_dt)
    /\ idx' = idx + 1 /\ pc' = "heat" /\ site' = <<>> /\ log_msg' = "skip_year"
    /\ UNCHANGED <<drv, heat_nos, heat_date_map, vi, best, out_csv>>
    /\ UNCHANGED notLapsVars

\* lines 468-496: no tier matched; continue with the next heat
NoLapsFound ==
    /\ pc = "select"
    /\ ~(HtmlFalsy(best) \/ best.keys <= 0)
    /\ ~TooOld(cur_heat_dt)
    /\ IsNone(SelectLaps(cur_driver_name, cur_disp_name, best.racer_laps))
    /\ idx' = idx + 1 /\ pc' = "heat" /\ site' = <<>> /\ log_msg' = "no_laps_found"
    /\ UNCHANGED <<drv, heat_nos, heat_date_map, vi, best, out_csv>>
    /\ UNCHANGED notLapsVars

\* lines 468-505: the laps selected are appended to the CSV
WriteRows ==
    /\ pc = "select"
    /\ ~(HtmlFalsy(best) \/ best.keys <= 0)
    /\ ~TooOld(cur_heat_dt)
    /\ LET laps == SelectLaps(cur_driver_name, cur_disp_name, best.racer_laps)
       IN  /\ ~IsNone(laps)
           /\ out_csv' = out_csv \o RowsOf(cur_disp_name, cur_driver_id, cur_heat, cur_heat_dt, laps[1])
    /\ idx' = idx + 1 /\ pc' = "heat" /\ site' = <<>> /\ log_msg' = "found_laps"
    /\ UNCHANGED <<drv, heat_nos, heat_date_map, vi, best>>
    /\ UNCHANGED notLapsVars

LapsNext ==
    \/ FinishRun \/ HistoryFails \/ HistoryFetched
    \/ EndHeats \/ SkipByHistory \/ BeginVariants \/ TryVariant
    \/ NoUsableVariant \/ SkipByPageDate \/ NoLapsFound \/ WriteRows

LapsIdle ==
    /\ pc = "off" /\ drv = 0 /\ heat_nos = <<>> /\ heat_date_map = <<>> /\ idx = 0
    /\ site = <<>> /\ vi = 0 /\ best = <<>> /\ out_csv = <<>> /\ log_msg = "off"

-----------------------------------------------------------------------------
(* parse.py: numbers in cell text *)

Digits == <<"0","1","2","3","4","5","6","7","8","9">>

IsDigit(c) == \E i \in 1..10 : Digits[i] = c

DigitVal(c) == (CHOOSE i \in 1..10 : Digits[i] = c) - 1

\* re.fullmatch(r"\d+", s)
IsDigits(s) == s # <<>> /\ \A i \in 1..Len(s) : IsDigit(s[i])

\* the value of a run of decimal digits
RECURSIVE NatOf(_)
NatOf(s) == IF s = <<>> THEN 0 ELSE 10 * NatOf(SubSeq(s, 1, Len(s) - 1)) + DigitVal(s[Len(s)])

IndexOf(s, c) == IF \E i \in 1..Len(s) : s[i] = c
                 THEN CHOOSE i \in 1..Len(s) : s[i] = c /\ \A j \in 1..(i - 1) : s[j] # c
                 ELSE 0

Unsigned(s) == IF s # <<>> /\ s[1] \in {"+", "-"} THEN Tail(s) ELSE s

Sign(s) == IF s # <<>> /\ s[1] = "-" THEN -1 ELSE 1

\* int(text): Some(value), or None where Python raises ValueError
IntOf(text) ==
    LET s == Unsigned(strip(text))
    IN  IF IsDigits(s) THEN Some(Sign(strip(text)) * NatOf(s)) ELSE NoneV

\* the first three decimals of a fraction, as thousandths
Thousandths(f) ==
    LET d(i) == IF i <= Len(f) THEN DigitVal(f[i]) ELSE 0
    IN  100 * d(1) + 10 * d(2) + d(3)

\* a float that is no finite number, kind one of "inf", "-inf" and "nan": a
\* number of thousandths beyond every finite time of this model (finite
\* times stay within two million seconds), inf above them all, -inf below
\* them all, and nan, which FloatLess never orders, one above inf
NonFinite(kind) ==
    CASE kind = "inf" -> 2000000 * 1000
      [] kind = "-inf" -> -(2000000 * 1000)
      [] kind = "nan" -> 2000000 * 1000 + 1

IsNonFinite(v) == v \in {NonFinite("inf"), NonFinite("-inf"), NonFinite("nan")}

\* x < y between two floats: False whenever either is nan
FloatLess(x, y) == x # NonFinite("nan") /\ y # NonFinite("nan") /\ x < y

\* the words float() reads as no finite number, compared without case
FloatWord(s) ==
    IF casefold(s) \in {<<"i","n","f">>, <<"i","n","f","i","n","i","t","y">>} THEN "inf"
    ELSE IF casefold(s) = <<"n","a","n">> THEN "nan"
    ELSE "none"

\* float(text) in thousandths: Some(value), Some(NonFinite(kind)) for the
\* words inf, infinity and nan, or None where Python raises ValueError.  Digits
\* with at most one point are accepted ("81.234", "81", "81.", ".5"), with
\* an optional sign; decimals beyond the third are dropped.  Exponents and
\* underscores between digits are outside the texts this model draws.
FloatOf(text) ==
    LET t == strip(text)
        s == Unsigned(t)
        p == IndexOf(s, ".")
        ip == IF p = 0 THEN s ELSE SubSeq(s, 1, p - 1)
        fp == IF p = 0 THEN <<>> ELSE SubSeq(s, p + 1, Len(s))
    IN  IF FloatWord(s) = "nan" THEN Some(NonFinite("nan"))
        ELSE IF FloatWord(s) = "inf"
        THEN Some(NonFinite(IF Sign(t) = -1 THEN "-inf" ELSE "inf"))
        ELSE IF /\ \A i \in 1..Len(ip) : IsDigit(ip[i])
                /\ \A i \in 1..Len(fp) : IsDigit(fp[i])
                /\ ip \o fp # <<>>
        THEN Some(Sign(t) * (1000 * NatOf(ip) + Thousandths(fp)))
        ELSE NoneV

\* _parse_time_to_seconds, lines 26-36: a finite number of minutes added to
\* inf or nan is inf or nan
_parse_time_to_seconds(text) ==
    LET s == strip(text)
        c == IndexOf(s, ":")
    IN  IF s = <<>> \/ ~\E i \in 1..Len(s) : IsDigit(s[i]) \/ s[i] = "."
        THEN NoneV
        ELSE IF c # 0
             THEN LET m  == IntOf(SubSeq(s, 1, c - 1))
                      ss == FloatOf(SubSeq(s, c + 1, Len(s)))
                  IN  IF IsNone(m) \/ IsNone(ss) THEN NoneV
                      ELSE IF IsNonFinite(ss[1]) THEN ss
                      ELSE Some(m[1] * 60000 + ss[1])
             ELSE FloatOf(s)

\* re.search(r"\[(\d+)\]", val): the digits of the first "[digits]", or None
RECURSIVE BracketDigits(_, _)
BracketDigits(val, i) ==
    IF i > Len(val) THEN NoneV
    ELSE IF val[i] = "["
         THEN LET rest == SubSeq(val, i + 1, Len(val))
                  close == IndexOf(rest, "]")
              IN  IF close > 1 /\ IsDigits(SubSeq(rest, 1, close - 1))
                  THEN Some(SubSeq(rest, 1, close - 1))
                  ELSE BracketDigits(val, i + 1)
         ELSE BracketDigits(val, i + 1)

\* re.sub(r"\[[^\]]+\]", "", val)
RECURSIVE StripBrackets(_)
StripBrackets(val) ==
    IF val = <<>> THEN <<>>
    ELSE IF val[1] = "[" /\ IndexOf(Tail(val), "]") > 1
         THEN StripBrackets(SubSeq(Tail(val), IndexOf(Tail(val), "]") + 1, Len(val) - 1))
         ELSE <<val[1]>> \o StripBrackets(Tail(val))

-----------------------------------------------------------------------------
(* parse.parse_heat_details_html, lines 42-248                             *)
(*                                                                         *)
(* The page is the parsed document: html.title is the text of its title    *)
(* ("" without one) and html.headings the texts of its h1/h2/h3/span/div   *)
(* elements, html.heat_type the value the heat-type locators find,         *)
(* html.lblDate the text of the element with id lblDate (None without      *)
(* one), html.trs what the Date-row scan reads of each tr (whether it has  *)
(* a HeatResultsLeftCell and a HeatResultsRightCell, the text of the       *)
(* lblDate1 of the left cell, the text of the first span of the right cell *)
(* and the text of the right cell), html.labels the text of each           *)
(* td/span/div/th with the text of the td/span/div that follows it,        *)
(* html.container the LapTimes sub-tables of the LapTimesContainer table   *)
(* (None without such a table), html.tables the other tables.  Texts are   *)
(* as _get_text returns them.                                              *)
(***************************************************************************)

\* re \s* from place i: the first place at or after i that holds no whitespace
RECURSIVE SkipWs(_, _)
SkipWs(s, i) == IF i <= Len(s) /\ s[i] \in Whitespace THEN SkipWs(s, i + 1) ELSE i

\* re (\d+) from place i: the place after the digits
RECURSIVE DigitsEnd(_, _)
DigitsEnd(s, i) == IF i <= Len(s) /\ IsDigit(s[i]) THEN DigitsEnd(s, i + 1) ELSE i

\* the lower-case word w stands at place i of s, letter case aside (re.I)
WordAt(s, i, w) ==
    i + Len(w) - 1 <= Len(s) /\ casefold(SubSeq(s, i, i + Len(w) - 1)) = w

\* the digits at place i as a number, None when no digit stands there
NumberAt(s, i) ==
    IF DigitsEnd(s, i) > i THEN Some(NatOf(SubSeq(s, i, DigitsEnd(s, i) - 1))) ELSE NoneV

\* Heat\s*#?\s*(\d+) tried at place i, a the place after "Heat\s*"
HeatHashAt(s, a) ==
    NumberAt(s, SkipWs(s, IF a <= Len(s) /\ s[a] = "#" THEN a + 1 ELSE a))

\* HeatNo\s*[:=]\s*(\d+) tried at place i, e the place after "HeatNo\s*"
HeatNoEqAt(s, e) ==
    IF e <= Len(s) /\ s[e] \in {":", "="} THEN NumberAt(s, SkipWs(s, e + 1)) ELSE NoneV

\* lines 61, 65: (?:Heat\s*#?\s*|HeatNo\s*[:=]\s*)(\d+) with re.I, tried at
\* place i: int(m.group(1)), None when the pattern does not match there
HeatNoMatchAt(s, i) ==
    IF WordAt(s, i, <<"h","e","a","t">>) /\ ~IsNone(HeatHashAt(s, SkipWs(s, i + 4)))
    THEN HeatHashAt(s, SkipWs(s, i + 4))
    ELSE IF WordAt(s, i, <<"h","e","a","t","n","o">>) THEN HeatNoEqAt(s, SkipWs(s, i + 6))
    ELSE NoneV

\* re.search: the leftmost match
HeatNoSearch(t) == FirstSome([i \in 1..Len(t) |-> HeatNoMatchAt(t, i)])

\* a plausible slip: the headings are searched before the title
HeatNoOfHeadingsFirst(html) ==
    FirstSome([i \in 1..(Len(html.headings) + 1) |->
                  IF i <= Len(html.headings) THEN HeatNoSearch(html.headings[i])
                  ELSE HeatNoSearch(html.title)])

\* lines 58-70: the title, then the h1/h2/h3/span/div elements in document order
HeatNoOf(html) ==
    IF ~IsNone(HeatNoSearch(html.title)) THEN HeatNoSearch(html.title)
    ELSE FirstSome([i \in 1..Len(html.headings) |-> HeatNoSearch(html.headings[i])])

\* the three numbers of a word digits/digits/digits, None for any other word
DateParts(w) ==
    LET p    == IndexOf(w, "/")
        rest == SubSeq(w, p + 1, Len(w))
        q    == IndexOf(rest, "/")
    IN  IF /\ p > 0 /\ q > 0
           /\ IsDigits(SubSeq(w, 1, p - 1))
           /\ IsDigits(SubSeq(rest, 1, q - 1))
           /\ IsDigits(SubSeq(rest, q + 1, Len(rest)))
        THEN Some(<<SubSeq(w, 1, p - 1), SubSeq(rest, 1, q - 1), SubSeq(rest, q + 1, Len(rest))>>)
        ELSE NoneV

\* the days of month m of year y
DaysIn(y, m) ==
    IF m \in {4, 6, 9, 11} THEN 30
    ELSE IF m # 2 THEN 31
    ELSE IF y % 4 = 0 /\ (y % 100 # 0 \/ y % 400 = 0) THEN 29
    ELSE 28

\* datetime(y, m, d) as the number YYYYMMDD, None where it raises ValueError
DateNumber(y, m, d) ==
    IF y \in 1..9999 /\ m \in 1..12 /\ d >= 1 /\ d <= DaysIn(y, m)
    THEN Some(10000 * y + 100 * m + d)
    ELSE NoneV

\* dateutil on the numbers a/b/c of a word whose third number has four
\* digits (it is the year text, and no year is completed to a century),
\* with dayfirst=False: a first number above 31 is taken as the year, with
\* month b and day c; a first number above 12 as the day, with month b;
\* any other first number as the month, with day b
DateOfParts(a, b, c) ==
    IF a > 31 THEN DateNumber(a, b, c)
    ELSE IF a > 12 THEN DateNumber(c, b, a)
    ELSE DateNumber(c, a, b)

\* a word of the form M/D/YYYY (one or two digits, one or two digits, four
\* digits) as the number of its date, None for any other word and for a
\* word that names no date (month 13, February 30, year 0000)
DateWord(w) ==
    IF IsNone(DateParts(w)) THEN NoneV
    ELSE IF Len(DateParts(w)[1][1]) > 2 \/ Len(DateParts(w)[1][2]) > 2
            \/ Len(DateParts(w)[1][3]) # 4 THEN NoneV
    ELSE DateOfParts(NatOf(DateParts(w)[1][1]), NatOf(DateParts(w)[1][2]),
                     NatOf(DateParts(w)[1][3]))

\* the words of the text of the form digits/digits/digits
DateWordsOf(text) == SelectSeq(split(text), LAMBDA w : ~IsNone(DateParts(w)))

\* _maybe_parse_datetime, lines 16-24, on texts whose words are of the form
\* M/D/YYYY or hold no digit and no word dateutil knows.  The fuzzy parse
\* skips the other words; it raises, and the function returns None, when
\* the text holds no date word, more than one (more than three numbers for
\* year, month and day), or one that names no date.  The ISO text
\* YYYY-MM-DDT00:00:00 is modelled by the number YYYYMMDD.
_maybe_parse_datetime(text) ==
    IF text = <<>> THEN NoneV
    ELSE IF Len(DateWordsOf(text)) # 1 THEN NoneV
    ELSE DateWord(DateWordsOf(text)[1])

\* lines 90-92: the element with id lblDate
DateExact(html) ==
    IF IsNone(html.lblDate) THEN NoneV ELSE _maybe_parse_datetime(html.lblDate[1])

\* lines 98-107: what a tr gives: nothing without both cells or without a
\* lblDate1 reading "Date" in the left one, else the parse of the span of
\* the right cell, or of the right cell when it has no span
DateOfRow(tr) ==
    IF ~tr.left \/ ~tr.right THEN NoneV
    ELSE IF IsNone(tr.lblDate1) THEN NoneV
    ELSE IF casefold(tr.lblDate1[1]) # <<"d","a","t","e">> THEN NoneV
    ELSE _maybe_parse_datetime(IF IsNone(tr.span) THEN tr.right_text ELSE tr.span[1])

\* lines 96-109: the first tr that gives a value, if start_time_iso is missing
DateRowTier(html, start_time_iso) ==
    IF ~IsNone(start_time_iso) THEN start_time_iso
    ELSE FirstSome([i \in 1..Len(html.trs) |-> DateOfRow(html.trs[i])])

\* line 115: (start\s*time|date\s*time|session\s*time) with re.I at place i
TimeLabelAt(t, i) ==
    \/ WordAt(t, i, <<"s","t","a","r","t">>) /\ WordAt(t, SkipWs(t, i + 5), <<"t","i","m","e">>)
    \/ WordAt(t, i, <<"d","a","t","e">>) /\ WordAt(t, SkipWs(t, i + 4), <<"t","i","m","e">>)
    \/ WordAt(t, i, <<"s","e","s","s","i","o","n">>) /\ WordAt(t, SkipWs(t, i + 7), <<"t","i","m","e">>)

\* lines 114-118: what a td/span/div/th gives: the parse of the text of the
\* next td/span/div when its own text matches the label pattern
DateOfLabel(label) ==
    IF \E i \in 1..Len(label.text) : TimeLabelAt(label.text, i)
    THEN _maybe_parse_datetime(label.next) ELSE NoneV

\* lines 112-120: the first label that gives a value, if start_time_iso is missing
LabelTier(html, start_time_iso) ==
    IF ~IsNone(start_time_iso) THEN start_time_iso
    ELSE FirstSome([i \in 1..Len(html.labels) |-> DateOfLabel(html.labels[i])])

\* a plausible slip: the label scan runs first and the exact element last
StartTimeOfScanFirst(html) ==
    FirstSome(<<LabelTier(html, NoneV), DateRowTier(html, NoneV), DateExact(html)>>)

\* lines 86-120
StartTimeOf(html) == LabelTier(html, DateRowTier(html, DateExact(html)))

\* lines 148-159: a row with a lap time adds the time and the bracketed
\* position (-1 without one) to acc = <<laps, lap_positions>>
LapAdd(acc, mpos, tsec) ==
    IF IsNone(tsec) THEN acc
    ELSE <<Append(acc[1], tsec[1]),
           Append(acc[2], IF IsNone(mpos) THEN -1 ELSE NatOf(mpos[1]))>>

\* lines 138-159: one row of a sub-table, tds the texts of its td cells
LapRow(acc, tds) ==
    IF Len(tds) < 2 THEN acc
    ELSE IF ~IsDigits(tds[1]) THEN acc
    ELSE LapAdd(acc, BracketDigits(tds[2], 1),
                _parse_time_to_seconds(strip(StripBrackets(tds[2]))))

\* lines 137-159: the lap rows of one sub-table, as <<laps, lap_positions>>
RECURSIVE LapRows(_, _)
LapRows(trs, acc) ==
    IF trs = <<>> THEN acc ELSE LapRows(Tail(trs), LapRow(acc, Head(trs)))

\* min(laps) of a list that is not empty: the first lap, replaced by each
\* later lap that compares less than the least so far, so that a nan first
\* lap stays and a later nan is passed over
RECURSIVE MinOf(_)
MinOf(q) ==
    IF Len(q) = 1 THEN q[1]
    ELSE LET m == MinOf(SubSeq(q, 1, Len(q) - 1))
         IN  IF FloatLess(q[Len(q)], m) THEN q[Len(q)] ELSE m

\* a plausible slip: the scan runs from the first lap forward
RECURSIVE FinishPosFirst(_)
FinishPosFirst(lap_positions) ==
    IF lap_positions = <<>> THEN NoneV
    ELSE IF Head(lap_positions) > 0 THEN Some(Head(lap_positions))
    ELSE FinishPosFirst(Tail(lap_positions))

\* lines 163-167: for p in reversed(lap_positions): if p > 0: finish_pos = p; break
RECURSIVE FinishPos(_)
FinishPos(lap_positions) ==
    IF lap_positions = <<>> THEN NoneV
    ELSE IF lap_positions[Len(lap_positions)] > 0
         THEN Some(lap_positions[Len(lap_positions)])
    ELSE FinishPos(SubSeq(lap_positions, 1, Len(lap_positions) - 1))

OrNone(q) == IF q = <<>> THEN NoneV ELSE Some(q)

\* lines 161-177: the driver dict of a sub-table
GroupedDict(name, laps, lap_positions) ==
    [name |-> name,
     position |-> FinishPos(lap_positions),
     kart |-> NoneV,
     best_lap_seconds |-> IF laps # <<>> THEN Some(MinOf(laps)) ELSE NoneV,
     lap_times_url |-> NoneV,
     laps |-> OrNone(laps),
     lap_positions |-> OrNone(lap_positions)]

GroupedOf(name, r) == GroupedDict(name, r[1], r[2])

\* lines 130-177: the driver of one LapTimes sub-table
GroupedDriver(dtbl) == GroupedOf(dtbl.th, LapRows(dtbl.trs, << <<>>, <<>> >>))

\* lines 128-177
GroupedDrivers(inner) == [i \in 1..Len(inner) |-> GroupedDriver(inner[i])]

K_driver == <<"d","r","i","v","e","r">>
K_racer  == <<"r","a","c","e","r">>
K_pos    == <<"p","o","s">>
K_kart   == <<"k","a","r","t">>
K_best   == <<"b","e","s","t">>
K_laps   == <<"l","a","p","s">>

\* table.find_all("th"), in document order
RECURSIVE ThTexts(_)
ThTexts(cells) ==
    IF cells = <<>> THEN <<>>
    ELSE (IF Head(cells).tag = "th" THEN <<Head(cells).text>> ELSE <<>>) \o ThTexts(Tail(cells))

RECURSIVE HeaderTexts(_)
HeaderTexts(trs) ==
    IF trs = <<>> THEN <<>> ELSE ThTexts(Head(trs).cells) \o HeaderTexts(Tail(trs))

\* lines 191-194: the table's header names a known column
IsCandidate(table) ==
    \E i \in 1..Len(HeaderTexts(table.trs)) :
        \E k \in {K_driver, K_racer, K_pos, K_kart, K_best, K_laps} :
            contains(casefold(HeaderTexts(table.trs)[i]), k)

\* lines 211-215: col(name), 1-based, None when no header contains the name
col(headers, name) ==
    IF \E i \in 1..Len(headers) : contains(headers[i], name)
    THEN Some(CHOOSE i \in 1..Len(headers) :
                 /\ contains(headers[i], name)
                 /\ \A j \in 1..(i - 1) : ~contains(headers[j], name))
    ELSE NoneV

RECURSIVE OnlyDigits(_)
OnlyDigits(s) ==
    IF s = <<>> THEN <<>>
    ELSE (IF IsDigit(Head(s)) THEN <<Head(s)>> ELSE <<>>) \o OnlyDigits(Tail(s))

IsAlpha(c) == (\E i \in 1..26 : UpperCase[i] = c) \/ (\E i \in 1..26 : LowerCase[i] = c)

\* re.sub(r"[^\dA-Za-z-]+", "", s)
RECURSIVE KartText(_)
KartText(s) ==
    IF s = <<>> THEN <<>>
    ELSE (IF IsDigit(Head(s)) \/ IsAlpha(Head(s)) \/ Head(s) = "-" THEN <<Head(s)>> ELSE <<>>)
         \o KartText(Tail(s))

\* lines 227-231: the first link of the row whose href matches "LapTimes"
LapLink(links) ==
    IF \E i \in 1..Len(links) : links[i].lap_times
    THEN Some(links[CHOOSE i \in 1..Len(links) :
                       links[i].lap_times /\ \A j \in 1..(i - 1) : ~links[j].lap_times].href)
    ELSE NoneV

\* lines 209-241: the driver of one data row; cell_texts[pos_i] is read unguarded
GenericDriver(headers, tr) ==
    LET cell_texts == [i \in 1..Len(tr.cells) |-> tr.cells[i].text]
        pos_i  == col(headers, K_pos)
        name_i == IF ~IsNone(col(headers, K_driver)) THEN col(headers, K_driver)
                  ELSE col(headers, K_racer)
        kart_i == col(headers, K_kart)
        best_i == col(headers, K_best)
    IN  IF ~IsNone(pos_i) /\ pos_i[1] > Len(cell_texts)
        THEN [exc |-> "IndexError"]
        ELSE [name |-> IF ~IsNone(name_i) /\ name_i[1] <= Len(cell_texts)
                       THEN cell_texts[name_i[1]] ELSE <<>>,
              position |-> IF ~IsNone(pos_i) /\ OnlyDigits(cell_texts[pos_i[1]]) # <<>>
                           THEN Some(NatOf(OnlyDigits(cell_texts[pos_i[1]]))) ELSE NoneV,
              kart |-> IF ~IsNone(kart_i) /\ kart_i[1] <= Len(cell_texts)
                       THEN Some(KartText(cell_texts[kart_i[1]])) ELSE NoneV,
              best_lap_seconds |-> IF ~IsNone(best_i) /\ best_i[1] <= Len(cell_texts)
                                   THEN _parse_time_to_seconds(cell_texts[best_i[1]])
                                   ELSE NoneV,
              lap_times_url |-> LapLink(tr.links),
              laps |-> NoneV,
              lap_positions |-> NoneV]

\* lines 204-241: rows with fewer than two cells are skipped; an IndexError
\* ends the parse.  The result is [exc, drivers]: exc is None on a normal return.
RECURSIVE GenericRows(_, _, _)
RECURSIVE GenericAdd(_, _, _, _)
GenericRows(headers, rows, acc) ==
    IF rows = <<>> THEN [exc |-> NoneV, drivers |-> acc]
    ELSE IF Len(Head(rows).cells) < 2 THEN GenericRows(headers, Tail(rows), acc)
    ELSE GenericAdd(headers, rows, acc, GenericDriver(headers, Head(rows)))

\* line 233: drivers.append(...), unless the row ended the parse
GenericAdd(headers, rows, acc, d) ==
    IF "exc" \in DOMAIN d THEN [exc |-> Some(d.exc), drivers |-> <<>>]
    ELSE GenericRows(headers, Tail(rows), Append(acc, d))

\* lines 189-241: the drivers of the first candidate table, [] when there is none
GenericDrivers(tables) ==
    IF \E i \in 1..Len(tables) : IsCandidate(tables[i])
    THEN LET best_table == tables[CHOOSE i \in 1..Len(tables) :
                                     /\ IsCandidate(tables[i])
                                     /\ \A j \in 1..(i - 1) : ~IsCandidate(tables[j])]
             headers == [i \in 1..Len(HeaderTexts(best_table.trs)) |->
                            casefold(HeaderTexts(best_table.trs)[i])]
         IN  GenericRows(headers, Tail(best_table.trs), <<>>)
    ELSE [exc |-> NoneV, drivers |-> <<>>]

PreferNonEmpty(first, second) == IF first.drivers # <<>> THEN first ELSE second

\* a plausible slip: the generic table is preferred when the page has one
DriversOfGenericFirst(html) ==
    PreferNonEmpty(GenericDrivers(html.tables),
                   IF IsNone(html.container) THEN GenericDrivers(html.tables)
                   ELSE [exc |-> NoneV, drivers |-> GroupedDrivers(html.container[1])])

\* lines 125-241: "if container:" decides the strategy
DriversOf(html) ==
    IF ~IsNone(html.container)
    THEN [exc |-> NoneV, drivers |-> GroupedDrivers(html.container[1])]
    ELSE GenericDrivers(html.tables)

\* lines 243-248: the dict returned, with exc None; or exc set when the parse raises
HeatDict(html, d) ==
    [exc |-> d.exc,
     heat_no |-> HeatNoOf(html),
     heat_type |-> html.heat_type,
     start_time_iso |-> StartTimeOf(html),
     drivers |-> d.drivers]

parse_heat_details_html(html) == HeatDict(html, DriversOf(html))

-----------------------------------------------------------------------------
(* clubspeed.get, run.fetch_html, parse.parse_laptimes_popup,              *)
(* run.fetch_driver_laps_if_linked, run.scrape_heat                        *)
(*                                                                         *)
(* What the site answers for a URL is [fails, resp]: the first `fails`     *)
(* attempts raise, the next one returns resp = [status_code, text], where  *)
(* text = [len, has_Heat, dom] gives the length of the body, whether it    *)
(* contains "Heat", and the document it parses to.                         *)
(***************************************************************************)

REQUEST_RETRY == 3

\* clubspeed.get, lines 11-23: the response, or exc when every attempt raised
get(answer) ==
    IF answer.fails >= REQUEST_RETRY
    THEN [exc |-> Some("RequestException"), resp |-> NoneV]
    ELSE [exc |-> NoneV, resp |-> Some(answer.resp)]

\* run.fetch_html, lines 12-21, r what clubspeed.get did
fetch_html_of(r) ==
    IF ~IsNone(r.exc) THEN [exc |-> r.exc, html |-> NoneV]
    ELSE IF r.resp[1].status_code = 404 THEN [exc |-> NoneV, html |-> NoneV]
    ELSE IF r.resp[1].status_code >= 400 THEN [exc |-> NoneV, html |-> NoneV]
    ELSE IF r.resp[1].text.len < 400 /\ ~r.resp[1].text.has_Heat
         THEN [exc |-> NoneV, html |-> NoneV]
    ELSE [exc |-> NoneV, html |-> Some(r.resp[1].text)]

\* run.fetch_html, lines 9-21: [exc, html]; html is None for a miss
fetch_html(answer) == fetch_html_of(get(answer))

K_lap      == <<"l","a","p">>
K_time     == <<"t","i","m","e">>
K_position == <<"p","o","s","i","t","i","o","n">>

InHead(table, k) == \E i \in 1..Len(table.head) : contains(casefold(table.head[i]), k)

\* parse.parse_laptimes_popup, lines 259-269: the table chosen, None without one
PopupTable(tables) ==
    LET strong(t) == \/ InHead(t, K_lap) /\ InHead(t, K_time)
                     \/ InHead(t, K_lap) /\ InHead(t, K_position)
                     \/ InHead(t, K_laps)
        weak(t) == InHead(t, K_lap)
    IN  IF \E i \in 1..Len(tables) : strong(tables[i])
        THEN Some(tables[CHOOSE i \in 1..Len(tables) :
                     strong(tables[i]) /\ \A j \in 1..(i - 1) : ~strong(tables[j])])
        ELSE IF \E i \in 1..Len(tables) : weak(tables[i])
        THEN Some(tables[CHOOSE i \in 1..Len(tables) :
                     weak(tables[i]) /\ \A j \in 1..(i - 1) : ~weak(tables[j])])
        ELSE NoneV

\* the first cell that _parse_time_to_seconds accepts, lines 277-282
FirstTime(cells) ==
    FirstSome([i \in 1..Len(cells) |-> _parse_time_to_seconds(cells[i])])

\* the first cell that is a bare integer, lines 283-287
FirstInt(cells) ==
    FirstSome([i \in 1..Len(cells) |-> IF IsDigits(cells[i]) THEN Some(NatOf(cells[i]))
                                       ELSE NoneV])

\* lines 288-290: a row with a time adds it, and its position or -1
PopupAdd(acc, time_val, pos_val) ==
    IF IsNone(time_val) THEN acc
    ELSE <<Append(acc[1], time_val[1]),
           Append(acc[2], IF IsNone(pos_val) THEN -1 ELSE pos_val[1])>>

\* lines 271-290: acc = <<times, positions>> over the rows after the first; a
\* row without cells has no time
RECURSIVE PopupRows(_, _)
PopupRows(rows, acc) ==
    IF rows = <<>> THEN acc
    ELSE PopupRows(Tail(rows), PopupAdd(acc, FirstTime(Head(rows)), FirstInt(Head(rows))))

\* lines 270-291: the rows of the table chosen
PopupOf(table) ==
    IF IsNone(table) THEN << <<>>, <<>> >>
    ELSE PopupRows(Tail(table[1].trs), << <<>>, <<>> >>)

\* line 291: return times, (positions or None)
PopupResult(r) == <<r[1], OrNone(r[2])>>

\* parse.parse_laptimes_popup, lines 254-291: (times, positions or None)
parse_laptimes_popup(dom) == PopupResult(PopupOf(PopupTable(dom.tables)))

\* lines 36-39: driver["laps"] = laps or None; driver["lap_positions"] = positions
WithLaps(driver, tp) ==
    [driver EXCEPT !.laps = OrNone(tp[1]), !.lap_positions = tp[2]]

\* lines 33-40, f what fetch_html did
LapsFetched(driver, f) ==
    IF ~IsNone(f.exc) THEN [exc |-> f.exc, driver |-> driver]
    ELSE IF IsNone(f.html) THEN [exc |-> NoneV, driver |-> driver]
    ELSE [exc |-> NoneV, driver |-> WithLaps(driver, parse_laptimes_popup(f.html[1].dom))]

\* run.fetch_driver_laps_if_linked, lines 29-40: [exc, driver]; popups[href]
\* answers the URL of the link href
fetch_driver_laps_if_linked(driver, popups) ==
    IF IsNone(driver.lap_times_url) THEN [exc |-> NoneV, driver |-> driver]
    ELSE LapsFetched(driver, fetch_html(popups[driver.lap_times_url[1]]))

\* run.scrape_heat, lines 59-61: [exc, drivers, fetched]; fetched lists the
\* lap-page links requested, in order
RECURSIVE Enrich(_, _, _, _)
RECURSIVE EnrichAdd(_, _, _, _, _)
Enrich(ds, popups, enriched_drivers, fetched) ==
    IF ds = <<>> THEN [exc |-> NoneV, drivers |-> enriched_drivers, fetched |-> fetched]
    ELSE EnrichAdd(ds, popups, enriched_drivers,
                   IF IsNone(Head(ds).lap_times_url) THEN fetched
                   ELSE Append(fetched, Head(ds).lap_times_url[1]),
                   fetch_driver_laps_if_linked(Head(ds), popups))

\* line 60: enriched_drivers.append(...), unless the fetch raised
EnrichAdd(ds, popups, enriched_drivers, fetched, e) ==
    IF ~IsNone(e.exc) THEN [exc |-> e.exc, drivers |-> <<>>, fetched |-> fetched]
    ELSE Enrich(Tail(ds), popups, Append(enriched_drivers, e.driver), fetched)

\* a plausible slip: the comparison is case-sensitive
ExcludedExactCase(ht, exclude) == \E i \in 1..Len(exclude) : ht = exclude[i]

\* line 53: config.EXCLUDE_HEAT_TYPES and
\* any(ht.lower() == x.lower() for x in config.EXCLUDE_HEAT_TYPES)
Excluded(ht, exclude) == \E i \in 1..Len(exclude) : casefold(ht) = casefold(exclude[i])

\* the dict scrape_heat returns; a key it lacks is None
HeatRecord(heat_no, parsed, ds, skipped_reason, source_url) ==
    [heat_no |-> IF IsNone(parsed.heat_no) \/ parsed.heat_no = Some(0)
                 THEN Some(heat_no) ELSE parsed.heat_no,
     heat_type |-> parsed.heat_type,
     start_time_iso |-> parsed.start_time_iso,
     drivers |-> ds,
     skipped_reason |-> skipped_reason,
     source_url |-> source_url]

\* run.scrape_heat, lines 59-64, e what the enrichment did
scrape_heat_enriched(heat_no, parsed, e) ==
    IF ~IsNone(e.exc) THEN [exc |-> e.exc, ret |-> NoneV, fetched |-> e.fetched]
    ELSE [exc |-> NoneV, fetched |-> e.fetched,
          ret |-> Some(HeatRecord(heat_no, parsed, e.drivers, NoneV,
                                  Some(<<"HeatDetails.aspx?HeatNo=", heat_no>>)))]

\* run.scrape_heat, lines 49-64, parsed what parse_heat_details_html did
scrape_heat_parsed(heat_no, web, exclude, parsed) ==
    IF ~IsNone(parsed.exc) THEN [exc |-> parsed.exc, ret |-> NoneV, fetched |-> <<>>]
    ELSE IF Excluded(strip(parsed.heat_type), exclude)
    THEN [exc |-> NoneV, fetched |-> <<>>,
          ret |-> Some(HeatRecord(heat_no, parsed, parsed.drivers,
                                  Some(strip(parsed.heat_type)), NoneV))]
    ELSE scrape_heat_enriched(heat_no, parsed,
                              Enrich(parsed.drivers, web.popups, <<>>, <<>>))

\* run.scrape_heat, lines 44-64, f what fetch_html did
scrape_heat_fetched(heat_no, web, exclude, f) ==
    IF ~IsNone(f.exc) THEN [exc |-> f.exc, ret |-> NoneV, fetched |-> <<>>]
    ELSE IF IsNone(f.html) THEN [exc |-> NoneV, ret |-> NoneV, fetched |-> <<>>]
    ELSE scrape_heat_parsed(heat_no, web, exclude, parse_heat_details_html(f.html[1].dom))

\* run.scrape_heat, lines 42-64.  web.main answers the heat page's URL and
\* web.popups[href] the URL normalize_url makes of a lap-page link.  The
\* result is [exc, ret, fetched]: exc is set when scrape_heat raises, ret is
\* None when it returns None and the record otherwise, fetched lists the
\* lap-page links requested.
scrape_heat(heat_no, web, exclude) ==
    scrape_heat_fetched(heat_no, web, exclude, fetch_html(web.main))

-----------------------------------------------------------------------------
(* Inputs of scrape_heat *)

MaxRows == 3

\* rows of a LapTimes sub-table, as the texts of their td cells
R_plain  == <<<<"1">>, <<"8","1",".","2","3","4">>>>
R_pos2   == <<<<"2">>, <<"8","0",".","9","9","9"," ","[","2","]">>>>
R_min1   == <<<<"3">>, <<"1",":","1","9",".","5"," ","[","1","]">>>>
R_notime == <<<<"4">>, <<"[","3","]">>>>
R_header == <<<<"L","a","p">>, <<"T","i","m","e">>>>
R_single == <<<<"5">>>>
R_pos0   == <<<<"6">>, <<"8","2"," ","[","0","]">>>>

\* rows with the lap number 0, with the time 0 and with a time below 0
R_lap0   == <<<<"0">>, <<"8","1",".","2","3","4">>>>
R_time0  == <<<<"7">>, <<"0",".","0","0","0">>>>
R_neg    == <<<<"8">>, <<"-","1",".","5"," ","[","2","]">>>>

RowPool == {R_plain, R_pos2, R_min1, R_notime, R_header, R_single, R_pos0}

RECURSIVE RowSeqs(_)
RowSeqs(n) ==
    IF n = 0 THEN {<<>>}
    ELSE RowSeqs(n - 1) \cup
         {Append(q, r) : q \in {x \in RowSeqs(n - 1) : Len(x) = n - 1}, r \in RowPool}

N_Jane == <<"J","a","n","e"," ","R","a","c","e","r">>
N_John == <<"J","o","h","n"," ","D","o","e">>

Th(t) == [tag |-> "th", text |-> t]

Td(t) == [tag |-> "td", text |-> t]

Tr(cells) == [cells |-> cells, links |-> <<>>]

TrLink(cells, href) == [cells |-> cells, links |-> << [href |-> href, lap_times |-> TRUE] >>]

\* Pos | Driver | Kart | Best Lap, two drivers, the first with a lap-times link
TabFull ==
    [trs |-> << Tr(<<Th(<<"P","o","s">>), Th(<<"D","r","i","v","e","r">>), Th(<<"K","a","r","t">>), Th(<<"B","e","s","t"," ","L","a","p">>)>>),
                TrLink(<<Td(<<"1">>), Td(N_Jane), Td(<<"1","2">>), Td(<<"8","0",".","9","9","9">>)>>, "LapTimes.aspx?id=1"),
                Tr(<<Td(<<"2",".">>), Td(N_John), Td(<<"K","-","7">>), Td(<<"1",":","2","1",".","2","3","4">>)>>) >>]

\* Racer | Kart: no position and no best-lap column; both drivers have links
TabNoBest ==
    [trs |-> << Tr(<<Th(<<"R","a","c","e","r">>), Th(<<"K","a","r","t">>)>>),
                TrLink(<<Td(N_Jane), Td(<<"1","2">>)>>, "LapTimes.aspx?id=1"),
                Tr(<<Td(<<"o","n","l","y">>)>>),
                TrLink(<<Td(N_John), Td(<<"#","7">>)>>, "LapTimes.aspx?id=2") >>]

\* Driver | Best | Pos with a data row of two cells
TabShortRow ==
    [trs |-> << Tr(<<Th(<<"D","r","i","v","e","r">>), Th(<<"B","e","s","t">>), Th(<<"P","o","s">>)>>),
                Tr(<<Td(N_Jane), Td(<<"8","0",".","5">>)>>) >>]

\* a layout table: no header names a known column
TabLayout ==
    [trs |-> << Tr(<<Th(<<"T","r","a","c","k">>), Th(<<"D","a","t","e">>)>>), Tr(<<Td(<<"K","e","n","t">>), Td(<<"8","/","2","3">>)>>) >>]

TableSets == {<<>>, <<TabLayout>>, <<TabFull>>, <<TabNoBest>>, <<TabShortRow>>,
              <<TabLayout, TabNoBest>>}

Meta(title, headings, heat_type, lblDate) ==
    [title |-> title, headings |-> headings, heat_type |-> heat_type,
     lblDate |-> lblDate, trs |-> <<>>, labels |-> <<>>]

Metas ==
    { Meta(<<"H","e","a","t"," ","8","2","2","7","1">>, <<>>, <<"E","n","d">>, Some(<<"8","/","2","3","/","2","0","2","5">>)),
      Meta(<<"H","e","a","t"," ","D","e","t","a","i","l","s">>, <<<<"R","e","s","u","l","t","s">>, <<"H","e","a","t","N","o",":"," ","8","2","3","0","0">>>>, <<"E","N","D">>, NoneV),
      Meta(<<>>, <<>>, <<"R","a","c","e">>, Some(<<"8","/","2","4","/","2","0","2","5">>)),
      Meta(<<"H","e","a","t"," ","#","0">>, <<>>, <<>>, NoneV) }

Page(meta, container, tables) ==
    [title |-> meta.title, headings |-> meta.headings, heat_type |-> meta.heat_type,
     lblDate |-> meta.lblDate, trs |-> meta.trs, labels |-> meta.labels,
     container |-> container, tables |-> tables]

Meta1 == CHOOSE m \in Metas : m.title = <<"H","e","a","t"," ","8","2","2","7","1">>

\* every sub-table of at most MaxRows rows, alone in its container, with and
\* without a generic table beside the container
GroupedPages ==
    {Page(Meta1, Some(<< [th |-> N_Jane, trs |-> q] >>), t) :
        q \in RowSeqs(MaxRows), t \in {<<>>, <<TabFull>>}}

Containers ==
    { NoneV,
      Some(<<>>),
      Some(<< [th |-> N_Jane, trs |-> <<R_plain, R_pos2>>] >>),
      Some(<< [th |-> N_Jane, trs |-> <<R_pos2, R_plain>>],
              [th |-> N_John, trs |-> <<R_header, R_notime>>] >>) }

\* sub-tables of at most two rows, with lap numbers and times that are not positive
ZeroRowSeqs ==
    {<<>>} \cup {<<a>> : a \in {R_plain, R_lap0, R_time0, R_neg}}
           \cup {<<a, b>> : a, b \in {R_plain, R_lap0, R_time0, R_neg}}

ZeroPages == {Page(Meta1, Some(<< [th |-> N_Jane, trs |-> r] >>), <<>>) : r \in ZeroRowSeqs}

\* rows with a time that is no finite number: nan, inf with a rank, -inf
R_nan    == <<<<"2">>, <<"1",":","n","a","n">>>>
R_inf    == <<<<"3">>, <<"1",":","i","n","f"," ","[","2","]">>>>
R_ninf   == <<<<"4">>, <<"0",":","-","i","n","f">>>>

\* sub-tables of at most two rows, with times that are no finite numbers
NonFiniteRowSeqs ==
    {<<a>> : a \in {R_nan, R_inf, R_ninf}}
        \cup {<<a, b>> : a, b \in {R_plain, R_nan, R_inf, R_ninf}}

NonFinitePages ==
    {Page(Meta1, Some(<< [th |-> N_Jane, trs |-> r] >>), <<>>) : r \in NonFiniteRowSeqs}

SmallPages == {Page(m, c, t) : m \in Metas, c \in Containers, t \in TableSets}

\* titles and headings with and without a heat number
Titles ==
    { <<>>, <<"H","e","a","t"," ","D","e","t","a","i","l","s">>, <<"H","e","a","t"," ","8","2","2","7","1">>, <<"h","e","a","t","#","1","2">>, <<"H","E","A","T","N","O"," ","="," ","8","2","3","0","0">>,
      <<"H","e","a","t"," ","#","0">>, <<"H","e","a","t"," ","N","o"," ","5">> }

HeadingSets ==
    { <<>>, <<<<"R","e","s","u","l","t","s">>, <<"H","e","a","t"," ","7">>>>, <<<<"H","e","a","t">>, <<"H","e","a","t","N","o",":","9"," ","H","e","a","t"," ","3">>>>,
      <<<<"H","e","a","t"," ","0">>, <<"H","e","a","t"," ","4">>>> }

\* grouped pages of one driver that differ in title and headings
TitlePages ==
    {Page(Meta(t, h, <<"R","a","c","e">>, NoneV), Some(<< [th |-> N_Jane, trs |-> <<R_plain>>] >>), <<>>) :
        t \in Titles, h \in HeadingSets}

\* a tr with both cells, as the Date-row scan reads it
DateTr(lblDate1, span, right_text) ==
    [left |-> TRUE, right |-> TRUE, lblDate1 |-> lblDate1, span |-> span,
     right_text |-> right_text]

\* a tr without a HeatResultsRightCell
HalfTr ==
    [left |-> TRUE, right |-> FALSE, lblDate1 |-> Some(<<"D","a","t","e">>), span |-> NoneV,
     right_text |-> <<"8","/","1","9","/","2","0","2","5">>]

Label(text, next) == [text |-> text, next |-> next]

\* texts of the lblDate element: a date, no date, two dates, a year 0000,
\* a day before the month, a day the month does not have
LblDates ==
    {NoneV, Some(<<"8","/","2","3","/","2","0","2","5">>), Some(<<"T","B","D">>), Some(<<>>), Some(<<"8","/","2","3","/","2","0","2","5"," ","9","/","2","4","/","2","0","2","5">>), Some(<<"1","/","1","/","0","0","0","0">>), Some(<<"2","3","/","8","/","2","0","2","5">>), Some(<<"2","/","3","0","/","2","0","2","5">>)}

TrSets ==
    { <<>>,
      << DateTr(Some(<<"D","a","t","e">>), NoneV, <<"8","/","2","4","/","2","0","2","5">>) >>,
      << HalfTr,
         DateTr(Some(<<"T","r","a","c","k">>), NoneV, <<"8","/","2","0","/","2","0","2","5">>),
         DateTr(NoneV, NoneV, <<"8","/","2","2","/","2","0","2","5">>),
         DateTr(Some(<<"D","A","T","E">>), Some(<<"T","B","D">>), <<"8","/","2","1","/","2","0","2","5">>),
         DateTr(Some(<<"d","a","t","e">>), Some(<<"o","n"," ","8","/","2","5","/","2","0","2","5">>), <<"8","/","2","1","/","2","0","2","5">>) >> }

LabelSets ==
    { <<>>,
      << Label(<<"S","t","a","r","t"," ","T","i","m","e">>, <<"8","/","2","6","/","2","0","2","5">>) >>,
      << Label(<<"P","r","i","n","t","e","d">>, <<"8","/","2","7","/","2","0","2","5">>),
         Label(<<"S","e","s","s","i","o","n"," ","t","i","m","e",":">>, <<"T","B","D">>),
         Label(<<"H","e","a","t"," ","D","a","t","e","T","i","m","e">>, <<"8","/","2","8","/","2","0","2","5">>) >> }

\* pages without drivers that differ in what the three start-time tiers find
DatePages ==
    {Page([Meta(<<"H","e","a","t"," ","8","2","2","7","1">>, <<>>, <<"R","a","c","e">>, d) EXCEPT !.trs = r, !.labels = l],
          NoneV, <<>>) :
        d \in LblDates, r \in TrSets, l \in LabelSets}

ParseInit ==
    /\ p_html \in GroupedPages \cup SmallPages \cup TitlePages \cup DatePages \cup ZeroPages
                 \cup NonFinitePages
    /\ p_out = <<"idle">>

\* parse_heat_details_html(html)
ParseHeat ==
    /\ p_out = <<"idle">>
    /\ p_out' = <<"ret", parse_heat_details_html(p_html)>>
    /\ UNCHANGED <<p_html, notParseVars>>

ParseIdle == p_html = <<>> /\ p_out = <<"off">>

\* lap-time popups
PopLapTime ==
    [tables |-> << [head |-> <<<<"L","a","p">>, <<"T","i","m","e">>>>,
                    trs |-> << <<>>, <<<<"1">>, <<"8","1",".","2","3","4">>>>, <<<<"2">>, <<"8","0",".","9","9","9">>>> >>] >>]

PopTimeOnly ==
    [tables |-> << [head |-> <<<<"R","e","s","u","l","t","s">>>>, trs |-> << <<>>, <<<<"1">>>> >>],
                   [head |-> <<<<"L","a","p","s">>>>,
                    trs |-> << <<>>, <<<<"1",":","2","2",".","5">>>>, <<>>, <<<<"n","/","a">>>>, <<<<"8","0",".","2","5">>>> >>] >>]

PopEmpty == [tables |-> << [head |-> <<<<"L","a","p">>, <<"T","i","m","e">>>>, trs |-> << <<>> >>] >>]

Ok(dom) == [fails |-> 0, resp |-> [status_code |-> 200,
                                   text |-> [len |-> 2000, has_Heat |-> TRUE, dom |-> dom]]]

\* answered on the last attempt
OkLate(dom) == [fails |-> REQUEST_RETRY - 1,
                resp |-> [status_code |-> 200,
                          text |-> [len |-> 2000, has_Heat |-> FALSE, dom |-> dom]]]

\* a short body without "Heat": fetch_html calls it a miss
Short(dom) == [fails |-> 0, resp |-> [status_code |-> 200,
                                      text |-> [len |-> 120, has_Heat |-> FALSE, dom |-> dom]]]

\* a short body with "Heat" in it
ShortHeat(dom) == [fails |-> 0, resp |-> [status_code |-> 200,
                                          text |-> [len |-> 120, has_Heat |-> TRUE, dom |-> dom]]]

Status(code) == [fails |-> 0, resp |-> [status_code |-> code,
                                        text |-> [len |-> 0, has_Heat |-> FALSE, dom |-> <<>>]]]

\* no attempt completes
Unreachable == [fails |-> REQUEST_RETRY, resp |-> <<>>]

Hrefs == {"LapTimes.aspx?id=1", "LapTimes.aspx?id=2"}

PopupWebs ==
    { [h \in Hrefs |-> Ok(PopLapTime)],
      [h \in Hrefs |-> IF h = "LapTimes.aspx?id=1" THEN OkLate(PopTimeOnly) ELSE Ok(PopEmpty)],
      [h \in Hrefs |-> IF h = "LapTimes.aspx?id=1" THEN Status(404) ELSE Unreachable],
      [h \in Hrefs |-> IF h = "LapTimes.aspx?id=1" THEN Unreachable ELSE Ok(PopLapTime)],
      [h \in Hrefs |-> IF h = "LapTimes.aspx?id=1" THEN Short(PopLapTime) ELSE OkLate(PopLapTime)] }

MainAnswers(dom) == {Ok(dom), OkLate(dom), ShortHeat(dom)}

NoPageAnswers == {Status(404), Status(500), Short(<<>>), Unreachable}

ExcludeLists == {<<>>, <<<<"E","n","d">>>>, <<<<"J","u","n","i","o","r">>, <<"R","A","C","E">>>>}

HeatInputs ==
    {[heat_no |-> 82271, web |-> [main |-> Ok(p), popups |-> w], exclude |-> <<>>] :
        p \in GroupedPages, w \in {[h \in Hrefs |-> Ok(PopLapTime)]}}
    \cup
    {[heat_no |-> 82271, web |-> [main |-> a, popups |-> w], exclude |-> x] :
        a \in UNION {MainAnswers(p) : p \in SmallPages}, w \in PopupWebs, x \in ExcludeLists}
    \cup
    {[heat_no |-> 82271, web |-> [main |-> a, popups |-> w], exclude |-> x] :
        a \in NoPageAnswers, w \in PopupWebs, x \in ExcludeLists}
    \cup
    {[heat_no |-> 75533, web |-> [main |-> Ok(p), popups |-> w], exclude |-> <<>>] :
        p \in TitlePages, w \in {[h \in Hrefs |-> Status(404)]}}

HeatInit ==
    /\ h_in \in HeatInputs
    /\ h_out = <<"idle">>

\* scrape_heat(heat_no) against the site's answers
ScrapeHeat ==
    /\ h_out = <<"idle">>
    /\ h_out' = <<"ret", scrape_heat(h_in.heat_no, h_in.web, h_in.exclude)>>
    /\ UNCHANGED <<h_in, notHeatVars>>

HeatIdle == h_in = <<>> /\ h_out = <<"off">>

-----------------------------------------------------------------------------
(* storage, run.rebuild_driver_index, run.main                             *)
(*                                                                         *)
(* data/heats is a sequence of <<heat number, document>> pairs in          *)
(* ascending heat number, one per file; json.dump and json.load keep the   *)
(* numbers, texts, lists and None of a document as they are.               *)
(* data/last_heat.txt is None while the file does not exist, and its text  *)
(* otherwise.  A start time is a number that orders as its ISO text does.  *)
(***************************************************************************)

START_HEAT_NO == 75533

MAX_CONSECUTIVE_MISSES == 30

SITE_BASE_URL == "https://pgpkent.clubspeedtiming.com"

\* config.EXCLUDE_HEAT_TYPES as the repository sets it
EXCLUDE_HEAT_TYPES == <<>>

\* str(n) for n >= 0
RECURSIVE StrOf(_)
StrOf(n) == IF n < 10 THEN <<Digits[n + 1]>> ELSE Append(StrOf(n \div 10), Digits[(n % 10) + 1])

\* storage.write_last_heat, lines 21-23
write_last_heat(heat_no) == Some(StrOf(heat_no))

\* storage.read_last_heat, lines 11-19, of the file's content
read_last_heat(file) ==
    IF IsNone(file) THEN NoneV
    ELSE IF IsDigits(strip(file[1])) THEN Some(NatOf(strip(file[1])))
    ELSE NoneV

\* storage.write_heat, lines 28-30: the file of heat_no is created or replaced
write_heat(dir, heat_no, payload) ==
    SelectSeq(dir, LAMBDA f : f[1] < heat_no) \o << <<heat_no, payload>> >>
        \o SelectSeq(dir, LAMBDA f : f[1] > heat_no)

\* storage.list_heat_files, lines 32-39
list_heat_files(dir) == [i \in 1..Len(dir) |-> dir[i][1]]

\* run.rebuild_driver_index, lines 89-97
EntryOf(doc, d) ==
    [heat_no |-> doc.heat_no,
     heat_type |-> doc.heat_type,
     position |-> d.position,
     kart |-> d.kart,
     best_lap_seconds |-> d.best_lap_seconds,
     laps |-> d.laps,
     start_time_iso |-> doc.start_time_iso]

\* line 98: summary.setdefault(name, []).append(ent)
SetDefaultAppend(summary, name, ent) ==
    IF HasKey(summary, name)
    THEN [i \in 1..Len(summary) |->
            IF summary[i][1] = name THEN <<name, Append(summary[i][2], ent)>>
            ELSE summary[i]]
    ELSE Append(summary, <<name, <<ent>> >>)

\* lines 85-98: the drivers of one document; a driver without a name is skipped
RECURSIVE AddDrivers(_, _, _)
AddDrivers(summary, doc, ds) ==
    IF ds = <<>> THEN summary
    ELSE AddDrivers(IF strip(Head(ds).name) = <<>> THEN summary
                    ELSE SetDefaultAppend(summary, strip(Head(ds).name),
                                          EntryOf(doc, Head(ds))),
                    doc, Tail(ds))

\* lines 80-98: the documents in ascending heat number
RECURSIVE AddDocs(_, _)
AddDocs(summary, files) ==
    IF files = <<>> THEN summary
    ELSE AddDocs(AddDrivers(summary, Head(files)[2], Head(files)[2].drivers), Tail(files))

\* a plausible slip, the one the comment at line 99 describes: the entries
\* are sorted by heat number alone
SortKeyHeatNoOnly(x) == <<0, IF IsNone(x.heat_no) THEN 0 ELSE x.heat_no[1]>>

\* line 101: (x["start_time_iso"] or "", x["heat_no"] or 0); "" sorts first
SortKey(x) ==
    <<IF IsNone(x.start_time_iso) THEN -1 ELSE x.start_time_iso[1],
      IF IsNone(x.heat_no) THEN 0 ELSE x.heat_no[1]>>

KeyLE(a, b) == a[1] < b[1] \/ (a[1] = b[1] /\ a[2] <= b[2])

\* x goes after the entries of the sorted arr whose key is not greater
InsertSorted(arr, x) ==
    SelectSeq(arr, LAMBDA y : KeyLE(SortKey(y), SortKey(x))) \o <<x>>
        \o SelectSeq(arr, LAMBDA y : ~KeyLE(SortKey(y), SortKey(x)))

\* list.sort(key=...): stable
RECURSIVE SortEntries(_, _)
SortEntries(sorted, arr) ==
    IF arr = <<>> THEN sorted ELSE SortEntries(InsertSorted(sorted, Head(arr)), Tail(arr))

\* lines 100-101
SortAll(summary) ==
    [i \in 1..Len(summary) |-> <<summary[i][1], SortEntries(<<>>, summary[i][2])>>]

\* max(heat_nos) if heat_nos else None
MaxHeatNo(nos) == IF nos = <<>> THEN NoneV ELSE Some(nos[Len(nos)])

\* run.rebuild_driver_index, lines 66-115: <<driver_index, rollup>> written at time now
rebuild_driver_index(dir, now) ==
    << [last_updated_utc |-> now,
        drivers |-> SortAll(AddDocs(<<>>, dir))],
       [last_updated_utc |-> now,
        heats_count |-> Len(list_heat_files(dir)),
        max_heat_no |-> MaxHeatNo(list_heat_files(dir)),
        source |-> SITE_BASE_URL] >>

-----------------------------------------------------------------------------
(* Runs of run.main *)

MaxHeats == 2

MaxRuns == 2

\* the heat numbers the site may have a page for
Window == START_HEAT_NO..(START_HEAT_NO + MaxHeats - 1)

MetaNoNumber == CHOOSE m \in Metas : m.title = <<>>

\* a grouped page whose heat number is not found on the page; its second
\* sub-table has no th, so no driver name
RunGrouped ==
    Page(MetaNoNumber, Some(<< [th |-> N_Jane, trs |-> <<R_plain, R_pos2>>],
                               [th |-> <<>>, trs |-> <<R_min1>>] >>), <<>>)

\* a generic page titled with heat 82271, both drivers with a lap-times link
RunGeneric == Page(Meta1, NoneV, <<TabNoBest>>)

\* a generic page titled with heat 82271 that starts when RunGrouped does
RunLate == Page([Meta1 EXCEPT !.lblDate = MetaNoNumber.lblDate], NoneV, <<TabFull>>)

\* a grouped page without a heat number and without a start time
RunUndated ==
    Page([MetaNoNumber EXCEPT !.lblDate = NoneV],
         Some(<< [th |-> N_Jane, trs |-> <<R_pos2>>] >>), <<>>)

RunPopups == [h \in Hrefs |-> IF h = "LapTimes.aspx?id=1" THEN Ok(PopTimeOnly) ELSE Status(404)]

RunWebs == {[main |-> a, popups |-> RunPopups] :
               a \in {Ok(RunGrouped), Ok(RunGeneric), Ok(RunLate), Ok(RunUndated),
                     Status(404), Unreachable}}

\* the end of a backfill longer than MAX_CONSECUTIVE_MISSES heats
LongEnd == START_HEAT_NO + MAX_CONSECUTIVE_MISSES + 5

\* sys.argv[1:]
ArgSets == { <<>>, << StrOf(START_HEAT_NO) >>,
             << StrOf(START_HEAT_NO), StrOf(START_HEAT_NO + 1) >>,
             << StrOf(START_HEAT_NO), StrOf(LongEnd) >>,
             << <<"7","x">> >> }

\* what the site answers for heat n: nothing beyond the window
SiteAt(n) == IF n \in Window THEN r_site[n] ELSE [main |-> Status(404), popups |-> RunPopups]

RunInit ==
    /\ r_site \in [Window -> RunWebs]
    /\ r_pc = "idle"
    /\ r_runs = 0
    /\ r_args = <<>>
    /\ cur = START_HEAT_NO
    /\ end = NoneV
    /\ consecutive_misses = 0
    /\ processed = 0
    /\ heats_dir = <<>>
    /\ last_heat_file = NoneV
    /\ index_files = NoneV
    /\ r_clock = 0
    /\ r_log = <<>>

\* lines 129-143
Bounded(args) ==
    IF Len(args) = 1 /\ IsDigits(args[1]) THEN Some(<<NatOf(args[1]), NatOf(args[1])>>)
    ELSE IF Len(args) = 2 /\ IsDigits(args[1]) /\ IsDigits(args[2])
    THEN Some(<<NatOf(args[1]), NatOf(args[2])>>)
    ELSE NoneV

\* lines 121-122
StartOf(last) == IF IsNone(last) THEN START_HEAT_NO ELSE last[1] + 1

\* main, lines 119-143: a run starts, after the previous one ended or died
RunStart ==
    /\ r_pc \in {"idle", "done", "raised"}
    /\ r_runs < MaxRuns
    /\ \E args \in ArgSets :
          /\ r_args' = args
          /\ cur' = IF IsNone(Bounded(args)) THEN StartOf(read_last_heat(last_heat_file))
                    ELSE Bounded(args)[1][1]
          /\ end' = IF IsNone(Bounded(args)) THEN NoneV ELSE Some(Bounded(args)[1][2])
    /\ r_runs' = r_runs + 1
    /\ consecutive_misses' = 0
    /\ processed' = 0
    /\ r_pc' = "loop"
    /\ r_log' = <<>>
    /\ UNCHANGED <<r_site, heats_dir, last_heat_file, index_files, r_clock, notRunVars>>

\* a plausible slip: ">=" for ">"
AtEndEarly == ~IsNone(end) /\ cur >= end[1]

\* line 146: end is not None and cur > end
AtEnd == ~IsNone(end) /\ cur > end[1]

\* lines 145-147: the bound is passed
LoopEnd ==
    /\ r_pc = "loop"
    /\ AtEnd
    /\ r_pc' = "rebuild"
    /\ UNCHANGED <<r_site, r_runs, r_args, cur, end, consecutive_misses, processed,
                   heats_dir, last_heat_file, index_files, r_clock, r_log, notRunVars>>

Scraped == scrape_heat(cur, SiteAt(cur), EXCLUDE_HEAT_TYPES)

\* line 148: scrape_heat raises, nothing in main catches it and the process dies
HeatRaises ==
    /\ r_pc = "loop"
    /\ ~AtEnd
    /\ ~IsNone(Scraped.exc)
    /\ r_pc' = "raised"
    /\ r_log' = Append(r_log, <<cur, "raised">>)
    /\ UNCHANGED <<r_site, r_runs, r_args, cur, end, consecutive_misses, processed,
                   heats_dir, last_heat_file, index_files, r_clock, notRunVars>>

\* lines 149-152, 158: scrape_heat returns None
HeatMiss ==
    /\ r_pc = "loop"
    /\ ~AtEnd
    /\ IsNone(Scraped.exc)
    /\ IsNone(Scraped.ret)
    /\ consecutive_misses' = consecutive_misses + 1
    /\ IF consecutive_misses + 1 >= MAX_CONSECUTIVE_MISSES
       THEN r_pc' = "rebuild" /\ cur' = cur
       ELSE r_pc' = "loop" /\ cur' = cur + 1
    /\ r_log' = Append(r_log, <<cur, "miss">>)
    /\ UNCHANGED <<r_site, r_runs, r_args, end, processed,
                   heats_dir, last_heat_file, index_files, r_clock, notRunVars>>

\* a plausible slip: a scraped heat leaves the miss counter as it is
HeatSavedNoReset ==
    /\ r_pc = "loop"
    /\ ~AtEnd
    /\ IsNone(Scraped.exc)
    /\ ~IsNone(Scraped.ret)
    /\ heats_dir' = write_heat(heats_dir, cur, Scraped.ret[1])
    /\ last_heat_file' = write_last_heat(cur)
    /\ processed' = processed + 1
    /\ cur' = cur + 1
    /\ r_log' = Append(r_log, <<cur, "saved">>)
    /\ UNCHANGED <<r_pc, r_site, r_runs, r_args, end, consecutive_misses, index_files,
                   r_clock, notRunVars>>

\* a plausible slip: the checkpoint is only ever moved upwards
HeatSavedKeepsHighest ==
    /\ r_pc = "loop"
    /\ ~AtEnd
    /\ IsNone(Scraped.exc)
    /\ ~IsNone(Scraped.ret)
    /\ consecutive_misses' = 0
    /\ heats_dir' = write_heat(heats_dir, cur, Scraped.ret[1])
    /\ last_heat_file' = IF IsNone(read_last_heat(last_heat_file)) THEN write_last_heat(cur)
                         ELSE IF cur > read_last_heat(last_heat_file)[1] THEN write_last_heat(cur)
                         ELSE last_heat_file
    /\ processed' = processed + 1
    /\ cur' = cur + 1
    /\ r_log' = Append(r_log, <<cur, "saved">>)
    /\ UNCHANGED <<r_pc, r_site, r_runs, r_args, end, index_files, r_clock, notRunVars>>

\* lines 153-158: the heat is written, then the checkpoint
HeatSaved ==
    /\ r_pc = "loop"
    /\ ~AtEnd
    /\ IsNone(Scraped.exc)
    /\ ~IsNone(Scraped.ret)
    /\ consecutive_misses' = 0
    /\ heats_dir' = write_heat(heats_dir, cur, Scraped.ret[1])
    /\ last_heat_file' = write_last_heat(cur)
    /\ processed' = processed + 1
    /\ cur' = cur + 1
    /\ r_log' = Append(r_log, <<cur, "saved">>)
    /\ UNCHANGED <<r_pc, r_site, r_runs, r_args, end, index_files, r_clock, notRunVars>>

\* a plausible slip: the entries of the documents are added to the index on
\* disk instead of to an empty summary
RebuildPatching ==
    /\ r_pc = "rebuild"
    /\ index_files' =
          Some(<< [last_updated_utc |-> r_clock + 1,
                   drivers |-> SortAll(AddDocs(IF IsNone(index_files) THEN <<>>
                                               ELSE index_files[1][1].drivers,
                                               heats_dir))],
                  rebuild_driver_index(heats_dir, r_clock + 1)[2] >>)
    /\ r_clock' = r_clock + 1
    /\ r_pc' = "done"
    /\ UNCHANGED <<r_site, r_runs, r_args, cur, end, consecutive_misses, processed,
                   heats_dir, last_heat_file, r_log, notRunVars>>

\* lines 160-161: rebuild_driver_index() and the closing message
Rebuild ==
    /\ r_pc = "rebuild"
    /\ index_files' = Some(rebuild_driver_index(heats_dir, r_clock + 1))
    /\ r_clock' = r_clock + 1
    /\ r_pc' = "done"
    /\ UNCHANGED <<r_site, r_runs, r_args, cur, end, consecutive_misses, processed,
                   heats_dir, last_heat_file, r_log, notRunVars>>

RunNext == RunStart \/ LoopEnd \/ HeatRaises \/ HeatMiss \/ HeatSaved \/ Rebuild

RunIdle ==
    /\ r_site = <<>>
    /\ r_pc = "off"
    /\ r_runs = 0
    /\ r_args = <<>>
    /\ cur = 0
    /\ end = NoneV
    /\ consecutive_misses = 0
    /\ processed = 0
    /\ heats_dir = <<>>
    /\ last_heat_file = NoneV
    /\ index_files = NoneV
    /\ r_clock = 0
    /\ r_log = <<>>

-----------------------------------------------------------------------------
(* scrape.aggregate_best_across_heats, lines 150-196                       *)
(*                                                                         *)
(* What the site answers for a heat is [fails, heat_dt, racers]: whether   *)
(* fetch raises, the date get_heat_datetime finds on the page (None when   *)
(* it finds none; a datetime is modelled by its year) and the (name, best  *)
(* lap, kart) triples parse_best_laps_by_racer_from_heat returns, one per  *)
(* name.  scrape.START_YEAR (line 15) has the value of START_YEAR above.   *)
(***************************************************************************)

\* lines 172-174: the driver filter lets the name through
Allowed(allowed, name) ==
    IsNone(allowed) \/ \E i \in 1..Len(allowed[1]) : allowed[1][i] = casefold(name)

\* a plausible slip: ">" for "<"
BetterLapReversed(b, c) == IsNone(c) \/ b > c[1].best_lap_seconds

\* line 176: (cur is None) or (best < cur["best_lap_seconds"])
BetterLap(b, c) == IsNone(c) \/ b < c[1].best_lap_seconds

\* lines 177-183
BoardEntry(name, b, heat, heat_dt) ==
    [name |-> name, best_lap_seconds |-> b, best_heat_no |-> heat,
     best_lap_datetime |-> heat_dt]

\* lines 172-183: one (name, best, kart) of the heat
BoardRacer(board, heat, heat_dt, allowed, r) ==
    IF ~Allowed(allowed, r[1]) THEN board
    ELSE IF BetterLap(r[2], GetOpt(board, r[1]))
         THEN DictPut(board, r[1], BoardEntry(r[1], r[2], heat, heat_dt))
         ELSE board

\* lines 171-183
RECURSIVE BoardRacers(_, _, _, _, _)
BoardRacers(board, heat, heat_dt, allowed, racers) ==
    IF racers = <<>> THEN board
    ELSE BoardRacers(BoardRacer(board, heat, heat_dt, allowed, Head(racers)),
                     heat, heat_dt, allowed, Tail(racers))

\* x goes after the racers of the sorted arr whose best lap is not greater
InsertByBest(arr, x) ==
    SelectSeq(arr, LAMBDA y : y.best_lap_seconds <= x.best_lap_seconds) \o <<x>>
        \o SelectSeq(arr, LAMBDA y : y.best_lap_seconds > x.best_lap_seconds)

\* line 194: sorted(leaderboard.values(), key=lambda r: r["best_lap_seconds"])
RECURSIVE SortedByBest(_, _)
SortedByBest(sorted, board) ==
    IF board = <<>> THEN sorted
    ELSE SortedByBest(InsertByBest(sorted, Head(board)[2]), Tail(board))

-----------------------------------------------------------------------------
(* Calls of aggregate_best_across_heats *)

MaxBoardHeats == 3

B_fail  == [fails |-> TRUE, heat_dt |-> NoneV, racers |-> <<>>]

B_two   == [fails |-> FALSE, heat_dt |-> Some([year |-> 2025]),
            racers |-> << <<N_Jane, 81000, "2">>, <<N_John, 80000, "5">> >>]

B_jane  == [fails |-> FALSE, heat_dt |-> Some([year |-> 2026]),
            racers |-> << <<N_Jane, 80000, "3">> >>]

B_swap  == [fails |-> FALSE, heat_dt |-> Some([year |-> 2025]),
            racers |-> << <<N_John, 82000, "1">>, <<N_Jane, 79500, "4">> >>]

B_old   == [fails |-> FALSE, heat_dt |-> Some([year |-> 2024]),
            racers |-> << <<N_John, 70000, "9">> >>]

B_undated == [fails |-> FALSE, heat_dt |-> NoneV,
              racers |-> << <<N_Jane, 71000, "9">> >>]

B_none  == [fails |-> FALSE, heat_dt |-> Some([year |-> 2025]), racers |-> <<>>]

BoardPages == {B_fail, B_two, B_jane, B_swap, B_old, B_undated, B_none}

RECURSIVE BoardSites(_)
BoardSites(n) ==
    IF n = 0 THEN {<<>>}
    ELSE BoardSites(n - 1) \cup
         {Append(q, pg) : q \in {x \in BoardSites(n - 1) : Len(x) = n - 1}, pg \in BoardPages}

\* heat_nos: the heat numbers, as main reads them
HeatNoAt(i) == StrOf(82270 + i)

BoardInit ==
    /\ g_site \in BoardSites(MaxBoardHeats)
    /\ allowed_names_lower \in {NoneV, Some(<<casefold(N_Jane)>>)}
    /\ g_pc = "idle"
    /\ g_idx = 0
    /\ leaderboard = <<>>
    /\ g_out = NoneV

\* line 151: the call
BoardCall ==
    /\ g_pc = "idle"
    /\ g_pc' = "loop"
    /\ leaderboard' = <<>>
    /\ UNCHANGED <<g_site, allowed_names_lower, g_idx, g_out, notBoardVars>>

\* the heat the loop takes next
NextHeat == g_site[g_idx + 1]

\* lines 154-158: fetch raises, the heat is skipped
BoardFetchFails ==
    /\ g_pc = "loop" /\ g_idx < Len(g_site)
    /\ NextHeat.fails
    /\ g_idx' = g_idx + 1
    /\ UNCHANGED <<g_site, allowed_names_lower, g_pc, leaderboard, g_out, notBoardVars>>

\* lines 161-167: no date on the page, or a date before START_YEAR
BoardSkipByDate ==
    /\ g_pc = "loop" /\ g_idx < Len(g_site)
    /\ ~NextHeat.fails
    /\ IF IsNone(NextHeat.heat_dt) THEN TRUE ELSE NextHeat.heat_dt[1].year < START_YEAR
    /\ g_idx' = g_idx + 1
    /\ UNCHANGED <<g_site, allowed_names_lower, g_pc, leaderboard, g_out, notBoardVars>>

\* lines 169-189: the racers of the heat are folded into the leaderboard
BoardHeat ==
    /\ g_pc = "loop" /\ g_idx < Len(g_site)
    /\ ~NextHeat.fails
    /\ ~IsNone(NextHeat.heat_dt) /\ NextHeat.heat_dt[1].year >= START_YEAR
    /\ leaderboard' = BoardRacers(leaderboard, HeatNoAt(g_idx + 1), NextHeat.heat_dt,
                                  allowed_names_lower, NextHeat.racers)
    /\ g_idx' = g_idx + 1
    /\ UNCHANGED <<g_site, allowed_names_lower, g_pc, g_out, notBoardVars>>

\* lines 191-196: the racers sorted by best lap are returned
BoardReturn ==
    /\ g_pc = "loop" /\ g_idx = Len(g_site)
    /\ g_out' = Some([source |-> SITE_BASE_URL, racers |-> SortedByBest(<<>>, leaderboard)])
    /\ g_pc' = "done"
    /\ UNCHANGED <<g_site, allowed_names_lower, g_idx, leaderboard, notBoardVars>>

BoardNext == BoardCall \/ BoardFetchFails \/ BoardSkipByDate \/ BoardHeat \/ BoardReturn

BoardIdle ==
    /\ g_site = <<>> /\ allowed_names_lower = NoneV /\ g_pc = "off" /\ g_idx = 0
    /\ leaderboard = <<>> /\ g_out = NoneV

-----------------------------------------------------------------------------
(* scrape_all_laps.parse_laps_text_block, lines 172-199                    *)
(*                                                                         *)
(* The text of the page (get_text("\n", strip=True)) is given as the      *)
(* sequence of its lines, which hold no line break themselves and are      *)
(* joined by "\n"; a line may be empty or start with blanks (text of a     *)
(* <pre>).  The section label is searched in the whole text, so that it    *)
(* may run over several lines.                                             *)
(***************************************************************************)

\* line 176: the lines of the text joined by "\n"
RECURSIVE JoinLines(_)
JoinLines(text) ==
    IF text = <<>> THEN <<>>
    ELSE IF Len(text) = 1 THEN text[1]
    ELSE text[1] \o <<"\n">> \o JoinLines(Tail(text))

\* line 180: str.splitlines() of a text whose line breaks are "\n": a line
\* break at the end of the text starts no further line
RECURSIVE SplitLines(_)
SplitLines(s) ==
    IF s = <<>> THEN <<>>
    ELSE IF IndexOf(s, "\n") = 0 THEN <<s>>
    ELSE <<SubSeq(s, 1, IndexOf(s, "\n") - 1)>>
         \o SplitLines(SubSeq(s, IndexOf(s, "\n") + 1, Len(s)))

\* line 177: Lap\s*Times\s*by\s*Racer\s* with re.I and re.S tried at place i
\* of the text: the place after the match, 0 when the label does not stand
\* there; \s* takes line breaks as it takes blanks
LabelEndAt(l, i) ==
    IF /\ WordAt(l, i, <<"l","a","p">>)
       /\ WordAt(l, SkipWs(l, i + 3), <<"t","i","m","e","s">>)
       /\ WordAt(l, SkipWs(l, SkipWs(l, i + 3) + 5), <<"b","y">>)
       /\ WordAt(l, SkipWs(l, SkipWs(l, SkipWs(l, i + 3) + 5) + 2), <<"r","a","c","e","r">>)
    THEN SkipWs(l, SkipWs(l, SkipWs(l, SkipWs(l, i + 3) + 5) + 2) + 5)
    ELSE 0

\* the end of the leftmost match of the label in the text, 0 without a match
LabelEnd(l) ==
    IF \E i \in 1..Len(l) : LabelEndAt(l, i) > 0
    THEN LabelEndAt(l, CHOOSE i \in 1..Len(l) :
                          LabelEndAt(l, i) > 0 /\ \A j \in 1..(i - 1) : LabelEndAt(l, j) = 0)
    ELSE 0

\* lines 177-180: m.group(1).splitlines(), None when the label is not
\* found; group(1) is the text after the label and the whitespace behind
\* it, blank lines and the blanks before the next line included
SectionLines(text) ==
    LET t == JoinLines(text)
        e == LabelEnd(t)
    IN  IF e = 0 THEN NoneV ELSE Some(SplitLines(SubSeq(t, e, Len(t))))

\* lines 184, 189: re.match(r"\(Penalties:\s*\d+\)", line)
IsPenalties(l) ==
    /\ startswith(l, <<"(","P","e","n","a","l","t","i","e","s",":">>)
    /\ DigitsEnd(l, SkipWs(l, 12)) > SkipWs(l, 12)
    /\ DigitsEnd(l, SkipWs(l, 12)) <= Len(l)
    /\ l[DigitsEnd(l, SkipWs(l, 12))] = ")"

\* the end of (\d+(?:\.\d+)?) that starts at place b
TimeEnd(l, b) ==
    IF /\ DigitsEnd(l, b) <= Len(l) /\ l[DigitsEnd(l, b)] = "."
       /\ DigitsEnd(l, DigitsEnd(l, b) + 1) > DigitsEnd(l, b) + 1
    THEN DigitsEnd(l, DigitsEnd(l, b) + 1)
    ELSE DigitsEnd(l, b)

\* (\d+)\s+(\d+(?:\.\d+)?) from place a, the first place that is no whitespace
LapFrom(l, a) ==
    IF /\ DigitsEnd(l, a) > a
       /\ SkipWs(l, DigitsEnd(l, a)) > DigitsEnd(l, a)
       /\ DigitsEnd(l, SkipWs(l, DigitsEnd(l, a))) > SkipWs(l, DigitsEnd(l, a))
    THEN Some(<<NatOf(SubSeq(l, a, DigitsEnd(l, a) - 1)),
                FloatOf(SubSeq(l, SkipWs(l, DigitsEnd(l, a)),
                               TimeEnd(l, SkipWs(l, DigitsEnd(l, a))) - 1))[1]>>)
    ELSE NoneV

\* lines 191-193: re.match(r"\s*(\d+)\s+(\d+(?:\.\d+)?)", line) as
\* (int(group(1)), float(group(2))), None when the line does not match
LapOfLine(l) == LapFrom(l, SkipWs(l, 1))

\* line 189: the place where the inner loop stops, from place i (1-based):
\* the line before the next "(Penalties: N)" line, or past the last line
RECURSIVE BlockStop(_, _)
BlockStop(lines, i) ==
    IF i > Len(lines) THEN i
    ELSE IF i + 1 <= Len(lines) /\ IsPenalties(lines[i + 1]) THEN i
    ELSE BlockStop(lines, i + 1)

\* lines 188-194: the laps of the lines at places i..(stop - 1)
RECURSIVE BlockLaps(_, _, _)
BlockLaps(lines, i, stop) ==
    IF i >= stop THEN <<>>
    ELSE (IF IsNone(LapOfLine(lines[i])) THEN <<>> ELSE <<LapOfLine(lines[i])[1]>>)
         \o BlockLaps(lines, i + 1, stop)

\* a plausible slip: the inner loop runs to the end of the text, so that a
\* racer also takes the lap lines of the blocks that follow
BlockResultToEnd(result, racer, lines, i, stop) ==
    IF BlockLaps(lines, i, Len(lines) + 1) = <<>> THEN result
    ELSE DictPut(result, racer, BlockLaps(lines, i, Len(lines) + 1))

\* lines 195-196: if laps: result[racer] = laps
BlockResult(result, racer, lines, i, stop) ==
    IF BlockLaps(lines, i, stop) = <<>> THEN result
    ELSE DictPut(result, racer, BlockLaps(lines, i, stop))

\* lines 183-198, from place i (1-based)
RECURSIVE TextBlocks(_, _, _)
TextBlocks(lines, i, result) ==
    IF i > Len(lines) THEN result
    ELSE IF i + 1 <= Len(lines) /\ IsPenalties(lines[i + 1])
    THEN TextBlocks(lines, BlockStop(lines, i + 2),
                    BlockResult(result, strip(lines[i]), lines, i + 2,
                                BlockStop(lines, i + 2)))
    ELSE TextBlocks(lines, i + 1, result)

\* parse_laps_text_block on the text of the page
parse_laps_text_block(text) ==
    IF IsNone(SectionLines(text)) THEN <<>>
    ELSE TextBlocks(SectionLines(text)[1], 1, <<>>)

-----------------------------------------------------------------------------
(* Calls of parse_laps_text_block *)

MaxBlocks == 3

\* a line of a block with the lap it stands for: <<line, Some(<<lap number,
\* thousandths>>)>>, or <<line, None>> for a line that is no lap line
Ln(l, lap) == [line |-> l, lap |-> lap]

Block(name, pen, lns) == [name |-> name, pen |-> pen, lns |-> lns]

K_John == Block(<<"J","o","h","n"," ","D","o","e">>, <<"(","P","e","n","a","l","t","i","e","s",":"," ","0",")">>,
                <<Ln(<<"1"," ","8","5",".","1","1","1">>, Some(<<1, 85111>>)), Ln(<<"2"," ","8","4",".","2","2","0">>, Some(<<2, 84220>>))>>)

K_Jane == Block(<<"J","a","n","e"," ","R","o","e">>, <<"(","P","e","n","a","l","t","i","e","s",":"," ","1",")">>, <<Ln(<<"1"," ","9","0",".","0","0","0">>, Some(<<1, 90000>>))>>)

K_NoLaps == Block(<<"A","l"," ","B">>, <<"(","P","e","n","a","l","t","i","e","s",":","1","2",")">>, <<>>)

K_Mixed == Block(<<"C","y"," ","D">>, <<"(","P","e","n","a","l","t","i","e","s",":"," "," ","3",")">>,
                 <<Ln(<<"L","a","p"," ","T","i","m","e">>, NoneV), Ln(<<"1"," ","8","0">>, Some(<<1, 80000>>)),
                   Ln(<<"n","/","a">>, NoneV), Ln(<<"1","2"," "," ","7","9",".","5"," ","[","3","]">>, Some(<<12, 79500>>))>>)

K_John2 == Block(<<"J","o","h","n"," ","D","o","e">>, <<"(","P","e","n","a","l","t","i","e","s",":"," ","2",")">>, <<Ln(<<"1"," ","7","0",".","0","0","1">>, Some(<<1, 70001>>))>>)

\* lap lines with the lap number 0 and with the time 0
K_Zero == Block(<<"Z","e","d">>, <<"(","P","e","n","a","l","t","i","e","s",":"," ","0",")">>,
                <<Ln(<<"0"," ","8","0",".","1">>, Some(<<0, 80100>>)), Ln(<<"1"," ","0",".","0","0","0">>, Some(<<1, 0>>)), Ln(<<"2"," ","7","9",".","9">>, Some(<<2, 79900>>))>>)

BlockPool == {K_John, K_Jane, K_NoLaps, K_Mixed, K_John2, K_Zero}

RECURSIVE BlockSeqs(_)
BlockSeqs(n) ==
    IF n = 0 THEN {<<>>}
    ELSE BlockSeqs(n - 1) \cup
         {Append(q, b) : q \in {x \in BlockSeqs(n - 1) : Len(x) = n - 1}, b \in BlockPool}

\* the lines before the blocks: with the label, with it in another spelling
\* after a line of the page head, with it before a column header, without
\* it, with the label over two lines, with a blank line behind the label
Heads ==
    { <<<<"L","a","p"," ","T","i","m","e","s"," ","b","y"," ","R","a","c","e","r">>>>,
      <<<<"H","e","a","t"," ","8","2","2","7","1">>, <<"R","e","s","u","l","t","s"," ","L","A","P","T","I","M","E","S"," ","b","y"," "," ","r","a","c","e","r">>>>,
      <<<<"L","a","p"," ","T","i","m","e","s"," ","b","y"," ","R","a","c","e","r"," ","L","a","p"," ","T","i","m","e">>>>,
      <<<<"R","e","s","u","l","t","s">>>>,
      <<<<"L","a","p"," ","T","i","m","e","s">>, <<"b","y"," ","R","a","c","e","r">>>>,
      <<<<"L","a","p"," ","T","i","m","e","s"," ","b","y"," ","R","a","c","e","r">>, <<>>>> }

\* the lines of a block
BlockText(b) == <<b.name, b.pen>> \o [i \in 1..Len(b.lns) |-> b.lns[i].line]

RECURSIVE BlocksText(_)
BlocksText(bs) == IF bs = <<>> THEN <<>> ELSE BlockText(Head(bs)) \o BlocksText(Tail(bs))

TextInit ==
    /\ t_in \in {[head |-> h, blocks |-> bs] : h \in Heads, bs \in BlockSeqs(MaxBlocks)}
    /\ t_out = <<"idle">>

\* parse_laps_text_block(html)
ParseText ==
    /\ t_out = <<"idle">>
    /\ t_out' = <<"ret", parse_laps_text_block(t_in.head \o BlocksText(t_in.blocks))>>
    /\ UNCHANGED <<t_in, notTextVars>>

TextIdle == t_in = <<>> /\ t_out = <<"off">>

-----------------------------------------------------------------------------
(* Calls of parse._parse_time_to_seconds *)

\* texts before a colon
MinuteTexts == {<<"1">>, <<"0">>, <<"1","2">>, <<>>, <<"x">>, <<"1",".","5">>, <<"-","1">>, <<" ","2"," ">>}

\* texts after a colon, or alone
SecondTexts ==
    {<<"2","1",".","2","3","4">>, <<"8","1",".","2","3","4">>, <<"5">>, <<"0","5",".","5">>, <<".","5">>, <<"7",".">>, <<>>, <<".">>, <<"a","b","c">>,
     <<"n","a","n">>, <<"i","n","f">>, <<"2",":","3">>, <<"-","3",".","2","5">>, <<" ","9",".","9","9","9"," ">>, <<"D","N","F">>, <<"1","2","a","b","c">>, <<"-">>}

DurationTexts ==
    SecondTexts \cup {mm \o <<":">> \o ss : mm \in MinuteTexts, ss \in SecondTexts}

DurInit ==
    /\ d_text \in DurationTexts
    /\ d_out = <<"idle">>

\* _parse_time_to_seconds(s): every exception of the conversions is caught
\* at line 35, so the call returns
ParseDuration ==
    /\ d_out = <<"idle">>
    /\ d_out' = <<"ret", _parse_time_to_seconds(d_text)>>
    /\ UNCHANGED <<d_text, notDurVars>>

DurIdle == d_text = <<>> /\ d_out = <<"off">>

-----------------------------------------------------------------------------
(* Specifications *)

InitMatch == MatchInit /\ AnyIdle /\ LapsIdle /\ ParseIdle /\ HeatIdle /\ RunIdle /\ BoardIdle /\ TextIdle /\ DurIdle

SpecMatch == InitMatch /\ [][Select]_vars

InitAny == AnyInit /\ MatchIdle /\ LapsIdle /\ ParseIdle /\ HeatIdle /\ RunIdle /\ BoardIdle /\ TextIdle /\ DurIdle

SpecAny == InitAny /\ [][ParseAny]_vars

InitLaps == LapsInit /\ MatchIdle /\ AnyIdle /\ ParseIdle /\ HeatIdle /\ RunIdle /\ BoardIdle /\ TextIdle /\ DurIdle

SpecLaps == InitLaps /\ [][LapsNext]_vars

InitParse == ParseInit /\ MatchIdle /\ AnyIdle /\ LapsIdle /\ HeatIdle /\ RunIdle /\ BoardIdle /\ TextIdle /\ DurIdle

SpecParse == InitParse /\ [][ParseHeat]_vars

InitHeat == HeatInit /\ MatchIdle /\ AnyIdle /\ LapsIdle /\ ParseIdle /\ RunIdle /\ BoardIdle /\ TextIdle /\ DurIdle

SpecHeat == InitHeat /\ [][ScrapeHeat]_vars

InitRun == RunInit /\ MatchIdle /\ AnyIdle /\ LapsIdle /\ ParseIdle /\ HeatIdle /\ BoardIdle /\ TextIdle /\ DurIdle

SpecRun == InitRun /\ [][RunNext]_vars

InitBoard == BoardInit /\ MatchIdle /\ AnyIdle /\ LapsIdle /\ ParseIdle /\ HeatIdle /\ RunIdle /\ TextIdle /\ DurIdle

SpecBoard == InitBoard /\ [][BoardNext]_vars

InitText == TextInit /\ MatchIdle /\ AnyIdle /\ LapsIdle /\ ParseIdle /\ HeatIdle /\ RunIdle /\ BoardIdle /\ DurIdle

SpecText == InitText /\ [][ParseText]_vars

InitDur == DurInit /\ MatchIdle /\ AnyIdle /\ LapsIdle /\ ParseIdle /\ HeatIdle /\ RunIdle /\ BoardIdle /\ TextIdle

SpecDur == InitDur /\ [][ParseDuration]_vars

-----------------------------------------------------------------------------
(* C1 *)

\* the first of the four tiers under which key k matches, 5 when none does
TierOf(k, driver_name, disp_name) ==
    IF k = disp_name THEN 1
    ELSE IF norm(k) = norm(disp_name) THEN 2
    ELSE IF startswith(norm(k), norm(disp_name)) \/ startswith(norm(disp_name), norm(k)) THEN 3
    ELSE IF Surname(driver_name) # <<>> /\ contains(norm(k), Surname(driver_name)) THEN 4
    ELSE 5

MinTier(d, driver_name, disp_name) ==
    CHOOSE t \in 1..5 :
        /\ \A i \in 1..Len(d) : TierOf(d[i][1], driver_name, disp_name) >= t
        /\ t < 5 => \E i \in 1..Len(d) : TierOf(d[i][1], driver_name, disp_name) = t

\* C1: the laps selected are those of a key of the strongest tier (exact, then
\* normalized equality, then normalized prefix either way, then surname
\* containment) any candidate reaches, the first such key in page order, and
\* none when no candidate reaches any tier; so a key equal to the target is
\* selected whatever the order of the candidates and whatever else matches.
C1_Precedence ==
    m_out[1] = "laps" =>
        LET d  == m_in.racer_laps
            dn == m_in.driver_name
            ds == m_in.disp_name
            t  == MinTier(d, dn, ds)
        IN  /\ t = 5 => m_out[2] = NoneV
            /\ t < 5 =>
                 \E i \in 1..Len(d) :
                    /\ TierOf(d[i][1], dn, ds) = t
                    /\ \A j \in 1..(i - 1) : TierOf(d[j][1], dn, ds) # t
                    /\ m_out[2] = Some(d[i][2])
            /\ HasKey(d, ds) => m_out[2] = Some(Get(d, ds))

\* C1 witness: a prefix-only candidate is listed before the exact one, and the
\* exact one's laps were selected
C1_Witness ==
    /\ m_out[1] = "laps"
    /\ Len(m_in.racer_laps) = 2
    /\ TierOf(m_in.racer_laps[1][1], m_in.driver_name, m_in.disp_name) = 3
    /\ m_in.racer_laps[2][1] = m_in.disp_name
    /\ m_out[2] = Some(m_in.racer_laps[2][2])

-----------------------------------------------------------------------------
(* C2 *)

NumKeys(html) == Len(parse_laps_by_racer_any(html))

Fetched == {i \in 1..Len(variants) : site[i] # Fail}

\* after the variant loop: the page kept is the fetched variant with the most
\* racer keys, the first tried among those with the most; nothing is kept
\* when every fetch failed
C2_Kept ==
    pc = "select" =>
        IF Fetched = {} THEN best = BestInit
        ELSE \E i \in Fetched :
                /\ \A j \in Fetched : NumKeys(site[j]) <= NumKeys(site[i])
                /\ \A j \in Fetched : j < i => NumKeys(site[j]) < NumKeys(site[i])
                /\ best = [variant |-> Some(variants[i]), html |-> Some(site[i]),
                           racer_laps |-> parse_laps_by_racer_any(site[i]),
                           keys |-> NumKeys(site[i])]

\* when no variant yields a racer key the heat appends no row
C2_NoRows ==
    (pc = "select" /\ \A i \in 1..Len(variants) : site[i] = Fail \/ NumKeys(site[i]) = 0)
        => (out_csv' = out_csv /\ pc' = "heat" /\ idx' = idx + 1)

\* C2: each fetched variant is parsed on its own and the one with the greatest
\* number of racer keys is kept, the first tried on a tie; a variant whose
\* fetch fails is skipped; a heat none of whose variants yields a racer key
\* contributes no row.
C2_BestVariant == [](C2_Kept) /\ [][C2_NoRows]_vars

\* C2 witness: the first fetch failed, the two others tie on two racers with
\* different pages, and the first of the two was kept
C2_Witness ==
    /\ pc = "select"
    /\ site[1] = Fail /\ site[2] # Fail /\ site[3] # Fail
    /\ site[2] # site[3]
    /\ NumKeys(site[2]) = 2 /\ NumKeys(site[3]) = 2
    /\ best.variant = Some("show")

-----------------------------------------------------------------------------
(* C3 *)

ParseReturned == p_out[1] = "ret" /\ IsNone(p_out[2].exc)

SeqElems(q) == {q[i] : i \in 1..Len(q)}

HasBoth(html) ==
    /\ ~IsNone(html.container)
    /\ html.container[1] # <<>>
    /\ GenericDrivers(html.tables).drivers # <<>>

\* C3: for a page with both a LapTimesContainer holding LapTimes sub-tables
\* and a generic table whose header names a known column,
\* parse_heat_details_html returns exactly the drivers of the grouped
\* strategy, one per sub-table, and no driver of the generic table.
C3_GroupedOnly ==
    (p_out[1] = "ret" /\ HasBoth(p_html)) =>
        /\ IsNone(p_out[2].exc)
        /\ p_out[2].drivers = GroupedDrivers(p_html.container[1])
        /\ Len(p_out[2].drivers) = Len(p_html.container[1])
        /\ SeqElems(p_out[2].drivers) \cap SeqElems(GenericDrivers(p_html.tables).drivers) = {}

\* both strategies find drivers on the page, and the grouped ones are returned
C3_Witness ==
    /\ ParseReturned
    /\ HasBoth(p_html)
    /\ p_html.container[1][1].trs = <<R_plain, R_pos2>>
    /\ Len(p_out[2].drivers) = 1
    /\ p_out[2].drivers[1].laps = Some(<<81234, 80999>>)

-----------------------------------------------------------------------------
(* C4 *)

GroupedYieldsNone(html) ==
    IsNone(html.container) \/ GroupedDrivers(html.container[1]) = <<>>

\* C4: whenever the grouped strategy yields no driver (no container, or a
\* container without a sub-table), the generic strategy runs and its drivers
\* are returned.  parse.py returns inside "if container:", so a page with an
\* empty container beside a generic table with drivers parses to no driver.
C4_FallsThrough ==
    (p_out[1] = "ret" /\ GroupedYieldsNone(p_html)
                      /\ IsNone(GenericDrivers(p_html.tables).exc)) =>
        /\ IsNone(p_out[2].exc)
        /\ p_out[2].drivers = GenericDrivers(p_html.tables).drivers

-----------------------------------------------------------------------------
(* C6 *)

\* scrape_heat returned a record
HeatReturned == h_out[1] = "ret" /\ ~IsNone(h_out[2].ret)

\* the heat page scrape_heat parsed, where it fetched one
HeatPage == h_in.web.main.resp.text.dom

\* the page itself gives the best lap of its i-th driver: a generic row with
\* a time in the best-lap column (the grouped strategy derives it from the laps)
BestSupplied(i) ==
    /\ IsNone(HeatPage.container)
    /\ ~IsNone(parse_heat_details_html(HeatPage).drivers[i].best_lap_seconds)

\* C6: in every record scrape_heat returns, a driver with laps whose best
\* lap the page did not supply has best_lap_seconds = min(laps).
C6_BestIsMinOfLaps ==
    HeatReturned =>
        \A i \in 1..Len(h_out[2].ret[1].drivers) :
            LET d == h_out[2].ret[1].drivers[i]
            IN  (~IsNone(d.laps) /\ d.laps[1] # <<>> /\ ~BestSupplied(i)) =>
                    d.best_lap_seconds = Some(MinOf(d.laps[1]))

-----------------------------------------------------------------------------
(* C8 *)

\* scrape_heat fetched the heat page and parsed it
HeatParsed ==
    /\ h_out[1] = "ret"
    /\ IsNone(fetch_html(h_in.web.main).exc)
    /\ ~IsNone(fetch_html(h_in.web.main).html)
    /\ IsNone(parse_heat_details_html(HeatPage).exc)

\* the session type is one of config.EXCLUDE_HEAT_TYPES, letter case aside
TypeExcluded ==
    \E i \in 1..Len(h_in.exclude) :
        /\ Len(h_in.exclude[i]) = Len(strip(HeatPage.heat_type))
        /\ \A k \in 1..Len(h_in.exclude[i]) :
              FoldChar(h_in.exclude[i][k]) = FoldChar(strip(HeatPage.heat_type)[k])

LinksOf(ds) == {ds[i].lap_times_url[1] : i \in {j \in 1..Len(ds) : ~IsNone(ds[j].lap_times_url)}}

\* C8: for a heat whose type is excluded, scrape_heat returns a record with
\* a skip reason, requests no lap page and returns the drivers as parsed; for
\* any other heat the record it returns has no skip reason, the lap page of
\* every linked driver was requested and every driver is the result of
\* fetch_driver_laps_if_linked.
C8_ExcludedNotEnriched ==
    HeatParsed =>
        /\ TypeExcluded =>
              /\ HeatReturned
              /\ IsNone(h_out[2].exc)
              /\ ~IsNone(h_out[2].ret[1].skipped_reason)
              /\ h_out[2].fetched = <<>>
              /\ h_out[2].ret[1].drivers = parse_heat_details_html(HeatPage).drivers
        /\ (~TypeExcluded /\ HeatReturned) =>
              /\ IsNone(h_out[2].ret[1].skipped_reason)
              /\ SeqElems(h_out[2].fetched) = LinksOf(parse_heat_details_html(HeatPage).drivers)
              /\ Len(h_out[2].ret[1].drivers) = Len(parse_heat_details_html(HeatPage).drivers)
              /\ \A i \in 1..Len(h_out[2].ret[1].drivers) :
                    h_out[2].ret[1].drivers[i] =
                        fetch_driver_laps_if_linked(
                            parse_heat_details_html(HeatPage).drivers[i],
                            h_in.web.popups).driver

\* a heat of type "END" with "End" excluded: its linked drivers are returned
\* without laps and no lap page was requested
C8_Witness ==
    /\ HeatReturned
    /\ TypeExcluded
    /\ HeatPage.heat_type = <<"E","N","D">>
    /\ h_in.exclude = << <<"E","n","d">> >>
    /\ ~IsNone(h_out[2].ret[1].skipped_reason)
    /\ Len(h_out[2].ret[1].drivers) = 2
    /\ \A i \in 1..2 : /\ ~IsNone(h_out[2].ret[1].drivers[i].lap_times_url)
                       /\ IsNone(h_out[2].ret[1].drivers[i].laps)
    /\ h_out[2].fetched = <<>>

-----------------------------------------------------------------------------
(* C7 *)

\* the row is recorded as a lap: two cells, a lap number, a lap time
IsLapRow(tds) ==
    /\ Len(tds) >= 2
    /\ IsDigits(tds[1])
    /\ ~IsNone(_parse_time_to_seconds(strip(StripBrackets(tds[2]))))

\* the bracketed rank of the row's second cell, 0 without one
RankOf(tds) ==
    IF IsNone(BracketDigits(tds[2], 1)) THEN 0 ELSE NatOf(BracketDigits(tds[2], 1)[1])

\* the lap row carries a position: a bracketed rank, ranks counting from 1
Carries(tds) == IsLapRow(tds) /\ RankOf(tds) > 0

CarryingRows(trs) == {i \in 1..Len(trs) : Carries(trs[i])}

LastOf(S) == CHOOSE i \in S : \A j \in S : j <= i

\* C7: in the grouped strategy a driver's position is the bracketed position
\* of the last lap row that carries one (a lap row being a row with a lap
\* number and a lap time, a position a bracketed rank of at least 1): no
\* earlier lap overrides it, and the position is absent when no lap row
\* carries one.
C7_LastBracketedPosition ==
    (p_out[1] = "ret" /\ ~IsNone(p_html.container)) =>
        \A k \in 1..Len(p_html.container[1]) :
            LET trs == p_html.container[1][k].trs
            IN  /\ k <= Len(p_out[2].drivers)
                /\ p_out[2].drivers[k].position =
                      IF CarryingRows(trs) = {} THEN NoneV
                      ELSE Some(RankOf(trs[LastOf(CarryingRows(trs))]))

\* two laps carry different positions and a later lap carries none: the
\* position is that of the second
C7_Witness ==
    /\ ParseReturned
    /\ ~IsNone(p_html.container)
    /\ Len(p_html.container[1]) = 1
    /\ p_html.container[1][1].trs = <<R_pos2, R_min1, R_plain>>
    /\ p_out[2].drivers[1].position = Some(1)

-----------------------------------------------------------------------------
(* C9 *)

\* the fetch of the page of heat cur cannot complete: every attempt raises
TransportFailure == r_pc = "loop" /\ ~AtEnd /\ ~IsNone(get(SiteAt(cur).main).exc)

\* C9: a transport failure on the page of a heat is a skip of that heat: the
\* loop of run.main counts a miss and goes on to the next heat number (or
\* stops on MAX_CONSECUTIVE_MISSES), and the run does not die of it.
C9_TransportFailureIsMiss ==
    [][TransportFailure =>
          /\ r_pc' \in {"loop", "rebuild"}
          /\ consecutive_misses' = consecutive_misses + 1
          /\ r_pc' = "loop" => cur' = cur + 1]_vars

-----------------------------------------------------------------------------
(* C10 *)

\* no identity tier succeeds for the current driver on the page kept
IdentityMiss ==
    /\ pc = "select"
    /\ ~IsNone(best.html) /\ best.keys > 0
    /\ ~TooOld(cur_heat_dt)
    /\ MinTier(best.racer_laps, cur_driver_name, cur_disp_name) = 5

\* the rows a step appends
Appended(old, new) == SubSeq(new, Len(old) + 1, Len(new))

\* C10: on an identity miss the heat appends no row and main goes on with the
\* next heat of the same driver (and with the next driver after the last
\* heat); every row any step appends carries the current driver's id.
C10_MissContinues ==
    [][ /\ IdentityMiss =>
             /\ out_csv' = out_csv
             /\ pc' = "heat" /\ idx' = idx + 1
             /\ drv' = drv /\ heat_nos' = heat_nos
        /\ (pc = "heat" /\ idx > Len(heat_nos)) => (pc' = "driver" /\ drv' = drv + 1)
        /\ out_csv' # out_csv =>
             /\ Len(out_csv') > Len(out_csv)
             /\ SubSeq(out_csv', 1, Len(out_csv)) = out_csv
             /\ \A i \in 1..Len(Appended(out_csv, out_csv')) :
                    Appended(out_csv, out_csv')[i][2] = cur_driver_id
      ]_vars

\* C10 witness: a miss was just logged for the second driver, whose next heat
\* is still to come, and the rows written for the first driver are in place
C10_Witness ==
    /\ log_msg = "no_laps_found"
    /\ pc = "heat" /\ drv = 2 /\ idx = 2 /\ Len(heat_nos) = 2
    /\ out_csv # <<>>

-----------------------------------------------------------------------------
(* C5 *)

StrategyOuts(html) == <<html.text, html.dom, html.pre, GroupRows(html.glob, <<>>)>>

\* C5: the result is the output of the first strategy, in the order text block,
\* DOM tables, pre text, global table, whose output is non-empty; it is one
\* strategy's output unmerged, and it is empty only when all four are empty.
C5_FirstNonEmpty ==
    a_out[1] = "ret" =>
        LET outs == StrategyOuts(a_html)
        IN  /\ (a_out[2] = <<>>) <=> (\A i \in 1..4 : outs[i] = <<>>)
            /\ \A i \in 1..4 :
                 (outs[i] # <<>> /\ \A j \in 1..(i - 1) : outs[j] = <<>>)
                    => a_out[2] = outs[i]

\* C5 witness: the text block and the DOM tables both found racers, and the
\* text block's were returned
C5_Witness ==
    /\ a_out[1] = "ret"
    /\ a_html.text # <<>> /\ a_html.dom # <<>>
    /\ a_out[2] = a_html.text
    /\ a_out[2] # a_html.dom

-----------------------------------------------------------------------------
(* C11 *)

\* rebuild_driver_index is about to run while the two files on disk are what
\* it wrote, at its previous run, for the heat documents persisted now
RebuildAgain ==
    /\ r_pc = "rebuild"
    /\ index_files = Some(rebuild_driver_index(heats_dir, r_clock))

\* C11: a second run of rebuild_driver_index on an unchanged set of heat
\* documents writes the driver index and the summary byte for byte as the
\* first run wrote them.  run.py:103 stamps both files with the time of the
\* run, so the second run writes other bytes.
C11_ByteIdentical ==
    [][(RebuildAgain /\ r_pc' = "done") => index_files' = index_files]_vars

-----------------------------------------------------------------------------
(* C12 *)

\* rebuild_driver_index has just run: the files on disk are its output for
\* the documents in data/heats
Rebuilt == r_pc = "done" /\ ~IsNone(index_files)

\* the (document, driver) pairs of the persisted documents whose driver has a
\* name, as <<file, place among the document's drivers>>
NamedPairs(dir) ==
    UNION {{<<i, j>> : j \in {n \in 1..Len(dir[i][2].drivers) :
                                 strip(dir[i][2].drivers[n].name) # <<>>}} :
           i \in 1..Len(dir)}

PairName(dir, p) == strip(dir[p[1]][2].drivers[p[2]].name)

PairEntry(dir, p) == EntryOf(dir[p[1]][2], dir[p[1]][2].drivers[p[2]])

\* C12: after rebuild_driver_index the driver index is a function of the
\* persisted heat documents only: its names are the names of the drivers of
\* those documents, each listed once, and under every name there is exactly
\* one entry per (document, driver of that name) pair, so nothing of an
\* earlier index and nothing of a document that is not persisted.
C12_IndexIsFunctionOfDocuments ==
    Rebuilt =>
        LET ix == index_files[1][1].drivers
            P  == NamedPairs(heats_dir)
        IN  /\ {ix[k][1] : k \in 1..Len(ix)} = {PairName(heats_dir, p) : p \in P}
            /\ \A k, l \in 1..Len(ix) : ix[k][1] = ix[l][1] => k = l
            /\ \A k \in 1..Len(ix) :
                  /\ Len(ix[k][2]) =
                        Cardinality({p \in P : PairName(heats_dir, p) = ix[k][1]})
                  /\ \A n \in 1..Len(ix[k][2]) :
                        Cardinality({o \in 1..Len(ix[k][2]) : ix[k][2][o] = ix[k][2][n]})
                        = Cardinality({p \in P : /\ PairName(heats_dir, p) = ix[k][1]
                                                 /\ PairEntry(heats_dir, p) = ix[k][2][n]})

\* C12 witness: the second rebuild ran after its run added a document to the
\* one the first rebuild had indexed; a driver is in both documents, and a
\* driver without a name is in one of them
C12_Witness ==
    /\ Rebuilt /\ r_clock = 2 /\ processed = 1 /\ Len(heats_dir) = 2
    /\ \E i \in 1..2 : \E j \in 1..Len(heats_dir[i][2].drivers) :
          heats_dir[i][2].drivers[j].name = <<>>
    /\ \E k \in 1..Len(index_files[1][1].drivers) :
          Len(index_files[1][1].drivers[k][2]) = 2

-----------------------------------------------------------------------------
(* C13 *)

\* entry a may stand before entry b: a has no start time, or starts before
\* b, or starts when b does and has no greater heat number
InOrder(a, b) ==
    IF IsNone(a.start_time_iso)
    THEN ~IsNone(b.start_time_iso) \/ a.heat_no[1] <= b.heat_no[1]
    ELSE /\ ~IsNone(b.start_time_iso)
         /\ \/ a.start_time_iso[1] < b.start_time_iso[1]
            \/ /\ a.start_time_iso[1] = b.start_time_iso[1]
               /\ a.heat_no[1] <= b.heat_no[1]

\* C13: in the driver index the entries of every driver are sorted by
\* start_time ascending, the entries without a start_time first, and by heat
\* number ascending among the entries of equal start_time.
C13_EntriesSorted ==
    Rebuilt =>
        \A k \in 1..Len(index_files[1][1].drivers) :
            LET arr == index_files[1][1].drivers[k][2]
            IN  \A n \in 1..(Len(arr) - 1) : InOrder(arr[n], arr[n + 1])

\* C13 witness: a driver's entry of the later file has no start time and
\* stands before the entry of the earlier file, which has one
C13_Witness ==
    /\ Rebuilt
    /\ \E k \in 1..Len(index_files[1][1].drivers) :
          LET arr == index_files[1][1].drivers[k][2]
          IN  /\ Len(arr) = 2
              /\ IsNone(arr[1].start_time_iso) /\ ~IsNone(arr[2].start_time_iso)
              /\ arr[1].heat_no = Some(START_HEAT_NO + 1)

\* C13 witness of the tie: two entries of one start time, the one of the
\* later file first because its heat number is the smaller
C13_WitnessTie ==
    /\ Rebuilt
    /\ \E k \in 1..Len(index_files[1][1].drivers) :
          LET arr == index_files[1][1].drivers[k][2]
          IN  /\ Len(arr) = 2
              /\ arr[1].start_time_iso = arr[2].start_time_iso
              /\ arr[1].heat_no = Some(START_HEAT_NO + 1)
              /\ arr[2].heat_no[1] > START_HEAT_NO + 1

-----------------------------------------------------------------------------
(* C14 *)

\* the heat at place i was accepted: fetched, dated, and not before START_YEAR
Accepted(i) ==
    /\ ~g_site[i].fails
    /\ ~IsNone(g_site[i].heat_dt)
    /\ g_site[i].heat_dt[1].year >= START_YEAR

\* the best laps of the name in the accepted heats, as <<place, best lap>>
BestLapsOf(name) ==
    UNION {{<<i, g_site[i].racers[j][2]>> :
               j \in {n \in 1..Len(g_site[i].racers) : g_site[i].racers[n][1] = name}} :
           i \in {n \in 1..Len(g_site) : Accepted(n)}}

\* the names seen in an accepted heat, among those the driver filter of the
\* call lets through (all of them when the call has no filter)
SeenNames ==
    UNION {{g_site[i].racers[j][1] : j \in 1..Len(g_site[i].racers)} :
           i \in {n \in 1..Len(g_site) : Accepted(n)}}

LetThrough(name) ==
    \/ allowed_names_lower = NoneV
    \/ \E k \in 1..Len(allowed_names_lower[1]) : allowed_names_lower[1][k] = casefold(name)

\* C14: when aggregate_best_across_heats returns, the leaderboard has exactly
\* one entry per driver name seen in an accepted heat (of the names the
\* driver filter lets through, when the call has one); the entry's
\* best_lap_seconds is the least of the driver's best laps over the accepted
\* heats, its heat number is a heat where that least value was set, and the
\* entries are in ascending order of best_lap_seconds.
C14_Leaderboard ==
    g_pc = "done" =>
        LET racers == g_out[1].racers
        IN  /\ {racers[k].name : k \in 1..Len(racers)} = {n \in SeenNames : LetThrough(n)}
            /\ \A k, l \in 1..Len(racers) : racers[k].name = racers[l].name => k = l
            /\ \A k \in 1..Len(racers) :
                  /\ \A b \in BestLapsOf(racers[k].name) : racers[k].best_lap_seconds <= b[2]
                  /\ \E b \in BestLapsOf(racers[k].name) :
                        /\ b[2] = racers[k].best_lap_seconds
                        /\ HeatNoAt(b[1]) = racers[k].best_heat_no
            /\ \A k \in 1..(Len(racers) - 1) :
                  racers[k].best_lap_seconds <= racers[k + 1].best_lap_seconds

\* C14 witness: of three heats the last could not be fetched; the driver who
\* entered the leaderboard first improved in the second heat and still ends
\* behind the other driver, whose best lap is that of the first heat
C14_Witness ==
    /\ g_pc = "done"
    /\ g_site = <<B_swap, B_two, B_fail>>
    /\ allowed_names_lower = NoneV
    /\ Len(g_out[1].racers) = 2
    /\ g_out[1].racers[1].name = N_Jane
    /\ g_out[1].racers[1].best_lap_seconds = 79500
    /\ g_out[1].racers[1].best_heat_no = HeatNoAt(1)
    /\ g_out[1].racers[2].name = N_John
    /\ g_out[1].racers[2].best_lap_seconds = 80000
    /\ g_out[1].racers[2].best_heat_no = HeatNoAt(2)

-----------------------------------------------------------------------------
(* C15 *)

\* C15: every heat document that run.main persisted is addressable by its
\* session_id: the document stored under heat number N has heat_no N, and no
\* two persisted documents have the same heat_no.
C15_AddressableBySessionId ==
    /\ \A i \in 1..Len(heats_dir) : heats_dir[i][2].heat_no = Some(heats_dir[i][1])
    /\ \A i, j \in 1..Len(heats_dir) :
          heats_dir[i][2].heat_no = heats_dir[j][2].heat_no => i = j

-----------------------------------------------------------------------------
(* C16 *)

\* the numbers the heat-number pattern finds in the title and in the
\* h1/h2/h3/span/div elements of the page scrape_heat parsed
TitleNo == HeatNoSearch(HeatPage.title)

HeadingNos == [i \in 1..Len(HeatPage.headings) |-> HeatNoSearch(HeatPage.headings[i])]

FirstHeadingNo ==
    IF \A i \in 1..Len(HeadingNos) : IsNone(HeadingNos[i]) THEN NoneV
    ELSE HeadingNos[CHOOSE i \in 1..Len(HeadingNos) :
                       ~IsNone(HeadingNos[i]) /\ \A j \in 1..(i - 1) : IsNone(HeadingNos[j])]

\* C16: the heat_no of a record scrape_heat returns is the number matched in
\* the page title when the title matches; otherwise the number of the first
\* h1/h2/h3/span/div that matches; otherwise the heat number the request was
\* built with; it is never absent.  A session_id is a positive integer: a
\* matched number 0 is no session_id, and the request's number stands in.
C16_SessionIdTiers ==
    HeatReturned =>
        LET no    == h_out[2].ret[1].heat_no
            found == IF ~IsNone(TitleNo) THEN TitleNo ELSE FirstHeadingNo
        IN  /\ ~IsNone(no) /\ no[1] > 0
            /\ (~IsNone(TitleNo) /\ TitleNo[1] > 0) => no = TitleNo
            /\ (IsNone(TitleNo) /\ ~IsNone(FirstHeadingNo) /\ FirstHeadingNo[1] > 0)
                  => no = FirstHeadingNo
            /\ (IsNone(TitleNo) /\ IsNone(FirstHeadingNo)) => no = Some(h_in.heat_no)
            /\ found = Some(0) => no = Some(h_in.heat_no)

\* C16 witness: the title has no number, the first heading neither, and the
\* second heading gives the number 9 of its leftmost match
C16_Witness ==
    /\ HeatReturned
    /\ HeatPage.title = <<"H","e","a","t"," ","D","e","t","a","i","l","s">>
    /\ HeatPage.headings = <<<<"H","e","a","t">>, <<"H","e","a","t","N","o",":","9"," ","H","e","a","t"," ","3">>>>
    /\ h_in.heat_no = 75533
    /\ h_out[2].ret[1].heat_no = Some(9)

\* C16 witness of the fallback: neither title nor headings give a number
C16_WitnessFallback ==
    /\ HeatReturned
    /\ HeatPage.title = <<"H","e","a","t"," ","N","o"," ","5">> /\ HeatPage.headings = <<>>
    /\ h_out[2].ret[1].heat_no = Some(75533)

-----------------------------------------------------------------------------
(* C17 *)

\* what each tier finds on the page parsed: the value of the exact
\* date-label element, the values of the Date rows and of the start-time
\* labels in document order (None where the place gives no parseable value)
ExactValue ==
    IF IsNone(p_html.lblDate) THEN NoneV ELSE _maybe_parse_datetime(p_html.lblDate[1])

IsDateRow(tr) ==
    /\ tr.left /\ tr.right
    /\ ~IsNone(tr.lblDate1)
    /\ casefold(tr.lblDate1[1]) = <<"d","a","t","e">>

RowValues ==
    [i \in 1..Len(p_html.trs) |->
        IF IsDateRow(p_html.trs[i])
        THEN _maybe_parse_datetime(IF IsNone(p_html.trs[i].span) THEN p_html.trs[i].right_text
                                   ELSE p_html.trs[i].span[1])
        ELSE NoneV]

IsTimeLabel(t) ==
    \E w \in {<<"s","t","a","r","t">>, <<"d","a","t","e">>, <<"s","e","s","s","i","o","n">>} :
        \E i \in 1..(Len(t) - Len(w) + 1) : \E j \in (i + Len(w))..(Len(t) - 3) :
            /\ casefold(SubSeq(t, i, i + Len(w) - 1)) = w
            /\ \A k \in (i + Len(w))..(j - 1) : t[k] \in Whitespace
            /\ casefold(SubSeq(t, j, j + 3)) = <<"t","i","m","e">>

LabelValues ==
    [i \in 1..Len(p_html.labels) |->
        IF IsTimeLabel(p_html.labels[i].text)
        THEN _maybe_parse_datetime(p_html.labels[i].next) ELSE NoneV]

AllNone(q) == \A i \in 1..Len(q) : IsNone(q[i])

FirstValue(q) == q[CHOOSE i \in 1..Len(q) : ~IsNone(q[i]) /\ \A j \in 1..(i - 1) : IsNone(q[j])]

\* C17: start_time_iso is the value of the first tier that yields a
\* parseable value, in the order exact date-label element, Date row, start-
\* time label scan: a parseable value of the exact element is never
\* overridden, the Date rows count only when the exact element gives none,
\* the labels only when the Date rows give none either, and start_time_iso
\* is absent only when no tier gives a value.
C17_StartTimeTiers ==
    ParseReturned =>
        LET s == p_out[2].start_time_iso
        IN  /\ ~IsNone(ExactValue) => s = ExactValue
            /\ (IsNone(ExactValue) /\ ~AllNone(RowValues)) => s = FirstValue(RowValues)
            /\ (IsNone(ExactValue) /\ AllNone(RowValues) /\ ~AllNone(LabelValues))
                  => s = FirstValue(LabelValues)
            /\ (IsNone(ExactValue) /\ AllNone(RowValues) /\ AllNone(LabelValues))
                  => IsNone(s)

\* C17 witness: the three tiers each find a different date and the date of
\* the exact element is returned
C17_Witness ==
    /\ ParseReturned
    /\ p_html.lblDate = Some(<<"8","/","2","3","/","2","0","2","5">>)
    /\ ~AllNone(RowValues) /\ FirstValue(RowValues) = Some(20250825)
    /\ ~AllNone(LabelValues) /\ FirstValue(LabelValues) = Some(20250828)
    /\ p_out[2].start_time_iso = Some(20250823)

\* C17 witness of the second tier: the exact element holds no date, the
\* first Date row neither, and the second Date row's date is returned
C17_WitnessRow ==
    /\ ParseReturned
    /\ p_html.lblDate = Some(<<"T","B","D">>)
    /\ Len(p_html.trs) = 5 /\ ~AllNone(LabelValues)
    /\ p_out[2].start_time_iso = Some(20250825)

\* C17 witness of an exact element that does not parse: it holds two dates,
\* so the parse raises, and the date of the Date row is returned
C17_WitnessTwoDates ==
    /\ ParseReturned
    /\ p_html.lblDate = Some(<<"8","/","2","3","/","2","0","2","5"," ","9","/","2","4","/","2","0","2","5">>)
    /\ IsNone(ExactValue)
    /\ Len(p_html.trs) = 1
    /\ p_out[2].start_time_iso = Some(20250824)

-----------------------------------------------------------------------------
(* C18 *)

\* the text of the page has the section label
Labeled == LabelEnd(JoinLines(t_in.head)) > 0

\* the laps the lap lines of a block stand for, in order
RECURSIVE LapsOfLns(_)
LapsOfLns(lns) ==
    IF lns = <<>> THEN <<>>
    ELSE (IF IsNone(Head(lns).lap) THEN <<>> ELSE <<Head(lns).lap[1]>>) \o LapsOfLns(Tail(lns))

\* no other block of the text has the name of block k
OnlyOfItsName(k) ==
    \A j \in 1..Len(t_in.blocks) : t_in.blocks[j].name = t_in.blocks[k].name => j = k

\* C18: in the labeled text block every racer block (a name line followed
\* at once by a "(Penalties: N)" line) takes the lap lines that follow it up
\* to the next name/penalties pair or the end of the text: the racers of the
\* result are the names of the blocks with at least one lap line, and every
\* such racer maps to the laps of its own lap lines, in order, and to no lap
\* line of another block (a racer being known by its name).
C18_BlocksToRacers ==
    (t_out[1] = "ret" /\ Labeled) =>
        /\ {t_out[2][i][1] : i \in 1..Len(t_out[2])}
              = {t_in.blocks[k].name : k \in {n \in 1..Len(t_in.blocks) :
                                                 LapsOfLns(t_in.blocks[n].lns) # <<>>}}
        /\ \A k \in 1..Len(t_in.blocks) :
              (OnlyOfItsName(k) /\ LapsOfLns(t_in.blocks[k].lns) # <<>>) =>
                  /\ HasKey(t_out[2], t_in.blocks[k].name)
                  /\ Get(t_out[2], t_in.blocks[k].name) = LapsOfLns(t_in.blocks[k].lns)

\* C18 witness: the spec's example, blocks with 2 and 1 lap lines after the
\* label, gives two drivers with 2 and 1 laps
C18_Witness ==
    /\ t_out[1] = "ret"
    /\ t_in = [head |-> <<<<"L","a","p"," ","T","i","m","e","s"," ","b","y"," ","R","a","c","e","r">>>>, blocks |-> <<K_John, K_Jane>>]
    /\ t_out[2] = << <<<<"J","o","h","n"," ","D","o","e">>, << <<1, 85111>>, <<2, 84220>> >> >>,
                     <<<<"J","a","n","e"," ","R","o","e">>, << <<1, 90000>> >> >> >>

-----------------------------------------------------------------------------
(* C19 *)

\* text of the form SS.fff: digits, a point, digits
SecondsForm(t) ==
    \E p \in 2..(Len(t) - 1) :
        /\ t[p] = "."
        /\ IsDigits(SubSeq(t, 1, p - 1))
        /\ IsDigits(SubSeq(t, p + 1, Len(t)))

\* the thousandths of a text of the form SS.fff
SecondsValue(t) ==
    1000 * NatOf(SubSeq(t, 1, IndexOf(t, ".") - 1))
        + Thousandths(SubSeq(t, IndexOf(t, ".") + 1, Len(t)))

\* text of the form M:SS.fff
MinutesForm(t) ==
    \E c \in 2..(Len(t) - 1) :
        /\ t[c] = ":"
        /\ IsDigits(SubSeq(t, 1, c - 1))
        /\ SecondsForm(SubSeq(t, c + 1, Len(t)))

\* text that holds a letter
NonNumeric(t) == \E i \in 1..Len(t) : FoldChar(t[i]) \in SeqElems(LowerCase)

\* C19: _parse_time_to_seconds returns minutes*60 + seconds for text of the
\* form M:SS.fff, the number of seconds for text of the form SS.fff, and
\* absent for empty text and for every non-numeric text; it never raises.
C19_Duration ==
    d_out[1] # "idle" =>
        /\ d_out[1] = "ret"
        /\ MinutesForm(d_text) =>
              d_out[2] = Some(60000 * NatOf(SubSeq(d_text, 1, IndexOf(d_text, ":") - 1))
                              + SecondsValue(SubSeq(d_text, IndexOf(d_text, ":") + 1, Len(d_text))))
        /\ SecondsForm(d_text) => d_out[2] = Some(SecondsValue(d_text))
        /\ (d_text = <<>> \/ NonNumeric(d_text)) => IsNone(d_out[2])

-----------------------------------------------------------------------------
(* C20 *)

\* the generic strategy runs on the page and finds a table to read
GenericApplies(html) ==
    IsNone(html.container) /\ \E i \in 1..Len(html.tables) : IsCandidate(html.tables[i])

\* the table the generic strategy reads
BestTable(html) ==
    html.tables[CHOOSE i \in 1..Len(html.tables) :
                   /\ IsCandidate(html.tables[i])
                   /\ \A j \in 1..(i - 1) : ~IsCandidate(html.tables[j])]

\* its data rows: the rows after the first that have at least two cells
DataRows(table) == SelectSeq(Tail(table.trs), LAMBDA r : Len(r.cells) >= 2)

\* the header of the table names no such column, or the row has no cell there
Missing(table, names, tr) ==
    \A n \in names :
        LET c == col([i \in 1..Len(HeaderTexts(table.trs)) |->
                         casefold(HeaderTexts(table.trs)[i])], n)
        IN  IF IsNone(c) THEN TRUE ELSE c[1] > Len(tr.cells)

\* C20: the generic header-matched strategy produces one driver per data
\* row; a field (name, position, kart, best lap) whose column is missing
\* from the header or whose cell is missing from the row is absent in that
\* driver (the name empty), and no row makes the parse raise.
C20_AbsentFieldsNoException ==
    (p_out[1] = "ret" /\ GenericApplies(p_html)) =>
        /\ IsNone(p_out[2].exc)
        /\ Len(p_out[2].drivers) = Len(DataRows(BestTable(p_html)))
        /\ \A k \in 1..Len(p_out[2].drivers) :
              LET tr == DataRows(BestTable(p_html))[k]
                  d  == p_out[2].drivers[k]
              IN  /\ Missing(BestTable(p_html), {K_driver, K_racer}, tr) => d.name = <<>>
                  /\ Missing(BestTable(p_html), {K_pos}, tr) => IsNone(d.position)
                  /\ Missing(BestTable(p_html), {K_kart}, tr) => IsNone(d.kart)
                  /\ Missing(BestTable(p_html), {K_best}, tr) => IsNone(d.best_lap_seconds)

-----------------------------------------------------------------------------
(* C21 *)

\* a lap row of a sub-table with a positive lap number and a positive time
PositiveLapRow(tds) ==
    /\ IsLapRow(tds)
    /\ NatOf(tds[1]) > 0
    /\ FloatLess(0, _parse_time_to_seconds(strip(StripBrackets(tds[2])))[1])

\* the lap times of the rows of a sub-table that are positive lap rows
RECURSIVE PositiveLaps(_)
PositiveLaps(trs) ==
    IF trs = <<>> THEN <<>>
    ELSE (IF PositiveLapRow(Head(trs))
          THEN <<_parse_time_to_seconds(strip(StripBrackets(Head(trs)[2])))[1]>>
          ELSE <<>>) \o PositiveLaps(Tail(trs))

\* C21: every lap the extractors record has a positive lap number and a
\* strictly positive time.  Grouped sub-tables: the laps of a driver are the
\* times of the rows with a lap number above 0 and a time above 0, a row
\* with the lap number 0 or a time of 0 or less adding none.  Text block:
\* every (lap number, time) of every racer has both numbers above 0.
C21_LapsPositive ==
    /\ (p_out[1] = "ret" /\ ~IsNone(p_html.container)) =>
          \A i \in 1..Len(p_html.container[1]) :
              p_out[2].drivers[i].laps = OrNone(PositiveLaps(p_html.container[1][i].trs))
    /\ t_out[1] = "ret" =>
          \A i \in 1..Len(t_out[2]) : \A j \in 1..Len(t_out[2][i][2]) :
              t_out[2][i][2][j][1] > 0 /\ t_out[2][i][2][j][2] > 0

-----------------------------------------------------------------------------
(* C22 *)

\* the number of misses at the end of a log
RECURSIVE TrailingMisses(_)
TrailingMisses(log) ==
    IF log = <<>> THEN 0
    ELSE IF log[Len(log)][2] # "miss" THEN 0
    ELSE 1 + TrailingMisses(SubSeq(log, 1, Len(log) - 1))

\* the loop of the run has ended by a break
LoopLeft == r_pc \in {"rebuild", "done"}

\* C22: the miss counter is the number of heats in a row, up to the latest
\* one, for which scrape_heat returned no record (each miss adds one, each
\* scraped heat sets it to 0); the loop goes on while that run is shorter
\* than MAX_CONSECUTIVE_MISSES and stops with the miss that completes it;
\* a loop that has stopped has either passed its bound or seen such a run,
\* and in continuous mode it has stopped if and only if the run occurred.
C22_StopsOnRunOfMisses ==
    (r_pc = "loop" \/ LoopLeft) =>
        /\ consecutive_misses = TrailingMisses(r_log)
        /\ r_pc = "loop" => TrailingMisses(r_log) < MAX_CONSECUTIVE_MISSES
        /\ \A k \in 0..(Len(r_log) - 1) :
              TrailingMisses(SubSeq(r_log, 1, k)) < MAX_CONSECUTIVE_MISSES
        /\ LoopLeft => (AtEnd \/ TrailingMisses(r_log) = MAX_CONSECUTIVE_MISSES)
        /\ (LoopLeft /\ IsNone(end)) => TrailingMisses(r_log) = MAX_CONSECUTIVE_MISSES

\* C22 witness: a continuous run misses a heat, scrapes the next one, which
\* resets the counter, and stops after MAX_CONSECUTIVE_MISSES further misses
C22_Witness ==
    /\ r_pc = "done" /\ IsNone(end)
    /\ Len(r_log) = MAX_CONSECUTIVE_MISSES + 2
    /\ r_log[1][2] = "miss" /\ r_log[2][2] = "saved"
    /\ consecutive_misses = MAX_CONSECUTIVE_MISSES

-----------------------------------------------------------------------------
(* C23 *)

\* the run was given a range A..B on the command line
BoundedRun == r_pc \in {"loop", "rebuild", "done", "raised"} /\ ~IsNone(Bounded(r_args))

ArgA == Bounded(r_args)[1][1]

ArgB == Bounded(r_args)[1][2]

\* the log holds the heat numbers from A upwards, one after the other
AscendingFromA == \A i \in 1..Len(r_log) : r_log[i][1] = ArgA + i - 1

\* C23 as stated: a bounded run A..B that has left its loop has attempted
\* every heat number from A to B in ascending order, each exactly once, and
\* no other.
C23_AttemptsAToB ==
    (BoundedRun /\ LoopLeft) =>
        /\ AscendingFromA
        /\ Len(r_log) = ArgB - ArgA + 1
        /\ cur = ArgB + 1

\* C23, amended: a bounded run A..B attempts the heat numbers from A upwards
\* in ascending order, each exactly once and none above B, and its loop stops
\* after B or with the miss that completes MAX_CONSECUTIVE_MISSES misses in
\* a row, whichever comes first.
C23_AttemptsUntilBoundOrMisses ==
    BoundedRun =>
        /\ AscendingFromA
        /\ Len(r_log) <= ArgB - ArgA + 1
        /\ LoopLeft =>
              \/ Len(r_log) = ArgB - ArgA + 1 /\ cur = ArgB + 1
              \/ TrailingMisses(r_log) = MAX_CONSECUTIVE_MISSES /\ cur = r_log[Len(r_log)][1]

\* C23 witness: a backfill over two heats attempts both and stops
C23_Witness ==
    /\ BoundedRun /\ r_pc = "done"
    /\ ArgB = ArgA + 1
    /\ Len(r_log) = 2 /\ r_log[1][1] = ArgA /\ r_log[2][1] = ArgB

\* C23 witness: a longer backfill scrapes a heat and stops short of B on
\* MAX_CONSECUTIVE_MISSES misses in a row
C23_WitnessMisses ==
    /\ BoundedRun /\ r_pc = "done"
    /\ r_log[1][2] = "saved"
    /\ TrailingMisses(r_log) = MAX_CONSECUTIVE_MISSES
    /\ r_log[Len(r_log)][1] < ArgB

-----------------------------------------------------------------------------
(* C24 *)

\* the heat number in data/last_heat.txt, None without the file
Checkpoint == read_last_heat(last_heat_file)

\* the heat numbers of the documents in data/heats
Persisted == {heats_dir[i][1] : i \in 1..Len(heats_dir)}

\* the heats the run has written so far, in order
SavedOf(log) == SelectSeq(log, LAMBDA e : e[2] = "saved")

\* a continuous run stands before its first fetch
ContinuousStart == r_pc = "loop" /\ IsNone(end) /\ r_log = <<>>

\* C24 as stated: from an empty data directory on, the checkpoint names the
\* highest-numbered persisted heat document, which therefore exists, and a
\* continuous run starts at the first heat number above every persisted
\* heat.
C24_CheckpointIsHighest ==
    r_pc # "off" =>
        /\ IsNone(Checkpoint) <=> Persisted = {}
        /\ ~IsNone(Checkpoint) =>
              /\ Checkpoint[1] \in Persisted
              /\ \A n \in Persisted : n <= Checkpoint[1]
        /\ ContinuousStart => \A n \in Persisted : cur > n

\* C24, amended: from an empty data directory on, the checkpoint names the
\* heat document written most recently, a document for the checkpointed
\* heat always exists, and a continuous run starts at the heat number after
\* the checkpoint (START_HEAT_NO without one); during the first run the
\* checkpoint is also the highest-numbered document.
C24_CheckpointIsLatestWritten ==
    r_pc # "off" =>
        /\ IsNone(Checkpoint) <=> Persisted = {}
        /\ ~IsNone(Checkpoint) => Checkpoint[1] \in Persisted
        /\ SavedOf(r_log) # <<>> =>
              Checkpoint = Some(SavedOf(r_log)[Len(SavedOf(r_log))][1])
        /\ ContinuousStart =>
              cur = IF IsNone(Checkpoint) THEN START_HEAT_NO ELSE Checkpoint[1] + 1
        /\ (r_runs = 1 /\ ~IsNone(Checkpoint)) => \A n \in Persisted : n <= Checkpoint[1]

\* C24 witness: a backfill of two heats, then a backfill of the first of
\* them alone: the checkpoint names the heat written last, below the
\* highest document
C24_Witness ==
    /\ r_runs = 2 /\ r_pc = "done"
    /\ Persisted = {START_HEAT_NO, START_HEAT_NO + 1}
    /\ Checkpoint = Some(START_HEAT_NO)
    /\ SavedOf(r_log) # <<>>

\* C24 witness: a continuous run resumes after the checkpoint of the run before
C24_WitnessResume ==
    /\ r_runs = 2 /\ ContinuousStart
    /\ ~IsNone(Checkpoint) /\ cur = Checkpoint[1] + 1

-----------------------------------------------------------------------------
(* C25 *)

\* the popup has one table whose data rows are (lap index, lap time)
IndexTimePopup(dom) ==
    /\ Len(dom.tables) = 1
    /\ Len(dom.tables[1].trs) > 1
    /\ \A k \in 2..Len(dom.tables[1].trs) :
          /\ Len(dom.tables[1].trs[k]) = 2
          /\ IsDigits(dom.tables[1].trs[k][1])
          /\ SecondsForm(dom.tables[1].trs[k][2])

\* the values of the lap-time cells of its data rows, in row order
TimeCells(dom) ==
    [k \in 1..(Len(dom.tables[1].trs) - 1) |-> SecondsValue(dom.tables[1].trs[k + 1][2])]

\* the lap page of the driver was fetched and is such a popup
HasIndexTimePopup(d) ==
    IF IsNone(d.lap_times_url) THEN FALSE
    ELSE IF ~IsNone(fetch_html(h_in.web.popups[d.lap_times_url[1]]).exc) THEN FALSE
    ELSE IF IsNone(fetch_html(h_in.web.popups[d.lap_times_url[1]]).html) THEN FALSE
    ELSE IndexTimePopup(fetch_html(h_in.web.popups[d.lap_times_url[1]]).html[1].dom)

\* C25: for a lap popup whose data rows are (lap index, lap time),
\* parse_laptimes_popup gives one time per data row, in row order, each the
\* value of the row's lap-time cell and never the lap index, and these are
\* the laps scrape_heat stores on the linked driver.
C25_PopupLapTimes ==
    (HeatReturned /\ ~TypeExcluded) =>
        \A i \in 1..Len(h_out[2].ret[1].drivers) :
            HasIndexTimePopup(h_out[2].ret[1].drivers[i]) =>
                h_out[2].ret[1].drivers[i].laps =
                    Some(TimeCells(fetch_html(h_in.web.popups[
                             h_out[2].ret[1].drivers[i].lap_times_url[1]]).html[1].dom))

====
